---- MODULE Spec2Model ----
(***************************************************************************)
(* Capture-session lifecycle of the audio engine (src-tauri/src/audio.rs): *)
(* AudioManager::start / AudioManager::stop called from the async Tauri    *)
(* commands, the mixer thread (thread::spawn closure + capture_loop) and   *)
(* the WASAPI loopback threads.  Both builds are modelled: `windows`       *)
(* selects the cfg(windows) branches.                                      *)
(*                                                                         *)
(* A session is everything one start() call creates: its stop channel, its *)
(* readiness channel, its threads and the ActiveThread record.  Sessions   *)
(* live in numbered places; a place is free again once nothing of its      *)
(* session is left (no thread, no record, no caller working on it).        *)
(*                                                                         *)
(* The contents of the cpal queues are not part of this state: a cpal      *)
(* callback may have delivered a chunk at any moment its stream is alive.  *)
(* Of the wasapi channel of a mixed session the number of waiting chunks   *)
(* is kept: its producer thread ends on its own.                           *)
(***************************************************************************)
EXTENDS Integers, Sequences, FiniteSets, TLC

\* Sessions that can exist at the same time (running, being built, leaked).
MaxSessions == 2

\* Chunks the loopback thread of a mixed session is ahead of the mixer by.
MaxQueued == 2

Callers == {1, 2}
Sessions == 1..MaxSessions
Sources == {"mic", "system", "mixed", "other"}
\* Outcome of find_device_by_id / find_system_device: Ok(Some), Ok(None), Err.
Lookups == {"some", "none", "err"}

VARIABLES
    windows,     \* cfg(windows)
    active,      \* AudioManager.active: 0 is None, s is Some(ActiveThread of s)
    lock,        \* holder of the Mutex around `active` while stop() runs its body
    pc,          \* per caller: position inside start()/stop()
    call,        \* per caller: the command being executed
    source,      \* per caller: the `source` argument of the start being executed
    sid,         \* per caller: the session its running start() is building
    taken,       \* per caller: the ActiveThread stop() took out of the slot
    result,      \* per caller: how its last completed call ended
    kind,        \* per session: which branch of start() built it
    devices,     \* per session: the Vec<Device> moved into the mixer thread
    receivers,   \* per session: the producers behind `receivers`, in order
    mixer,       \* per session: state of the thread spawned in start()
    loopback,    \* per session: state of the WASAPI loopback thread
    stop_tx,     \* per session: the stop Sender is alive (not dropped)
    stopq,       \* per session: messages waiting in the stop channel
    wasapi_q,    \* per session: chunks waiting in the wasapi_tx/wasapi_rx channel
    stop_flag,   \* per session: the AtomicBool polled by the loopback thread
    ready,       \* per session: the mpsc readiness channel
    \* One mixer thread (or standalone loopback thread) and its chunks.
    mode,        \* which closure runs: "cpal", "mixed" (wasapi_rx pushed), "wasapi"
    selected,    \* the `devices` the closure was given
    rxs,         \* `receivers`: the producer behind each receiver, in order
    configs,     \* `configs`: the StreamConfig pushed next to each receiver
    count,       \* what the closure sent on ready_tx (-1: nothing yet)
    queue,       \* per receiver: the chunks waiting in its channel
    sent,        \* per receiver: chunks its producer has delivered so far
    loop,        \* position of the thread: build, wait, cycle, done
    first_chunk, \* the chunk select! returned for the running iteration
    emitted,     \* the audio:chunk events emitted so far
    \* One iteration of capture_loop on sample values.
    profile,     \* build profile: overflow checks on ("debug") or off ("release")
    first_buf,   \* the primary chunk
    first_ch,    \* device_channels[0]
    sec_buf,     \* the chunk try_recv returned for receiver 1 (<<>>: none)
    sec_ch,      \* device_channels[1]
    mixed,       \* the buffer emitted
    outcome,     \* "none", "emitted", "panicked"
    \* One call of a function that touches no state of the manager.
    func,        \* the function called ("none": no call is being looked at)
    arg,         \* its arguments
    ret,         \* what it returned (<<>> until it has)
    \* One WASAPI loopback thread and the flag it polls.
    sink,        \* "emit" (standalone capture) or "send" (capture for mixing)
    bits,        \* actual_bits_per_sample of the mix format
    cancel,      \* the AtomicBool shared with stop()
    at,          \* position of the thread: init, top, packet, ended
    delivered,   \* chunks emitted or sent so far
    late         \* of these, the ones delivered after the flag was set

callerVars == <<pc, call, source, sid, taken, result>>
sessVars == <<kind, devices, receivers, mixer, loopback, stop_tx, stopq,
              wasapi_q, stop_flag, ready>>
lifeVars == <<windows, active, lock, callerVars, sessVars>>
planeVars == <<mode, selected, rxs, configs, count, queue, sent, loop,
               first_chunk, emitted>>
mixVars == <<profile, first_buf, first_ch, sec_buf, sec_ch, mixed, outcome>>
callVars == <<func, arg, ret>>
loopVars == <<sink, bits, cancel, at, delivered, late>>
vars == <<lifeVars, planeVars, mixVars, callVars, loopVars>>

\* No call of a stateless function is being looked at.
CallRest ==
    /\ func = "none"
    /\ arg = <<>>
    /\ ret = <<>>

\* No loopback thread is being looked at.
LoopRest ==
    /\ sink = "none"
    /\ bits = 0
    /\ cancel = FALSE
    /\ at = "ended"
    /\ delivered = 0
    /\ late = 0

\* No data-plane thread is being looked at.
PlaneRest ==
    /\ mode = "none"
    /\ selected = <<>>
    /\ rxs = <<>>
    /\ configs = <<>>
    /\ count = -1
    /\ queue = <<>>
    /\ sent = <<>>
    /\ loop = "done"
    /\ first_chunk = 0
    /\ emitted = <<>>

\* Overflow checks are on in a debug build and off in a release build.
Profiles == {"debug", "release"}

\* No iteration is being looked at on sample values.
MixIdle ==
    /\ first_buf = <<>>
    /\ first_ch = 0
    /\ sec_buf = <<>>
    /\ sec_ch = 0
    /\ mixed = <<>>
    /\ outcome = "none"

MixRest == profile = "release" /\ MixIdle

\* The call returned Ok(()).
IsOk(r) == r \in {"start_ok", "stop_idle", "stop_joined"}

\* The mixer thread exists and has not returned.
MixerLive(s) == mixer[s] \in {"build", "wait", "cycle"}
\* The loopback thread exists and has not returned.
LoopbackLive(s) == loopback[s] \in {"init", "run", "deliver"}
\* ActiveThread.handle is Some for the sessions that spawn a mixer thread.
HasHandle(s) == kind[s] \in {"cpal", "mixed"}
\* ActiveThread.stop_flag is Some for the sessions with a loopback thread.
HasFlag(s) == kind[s] \in {"wasapi", "mixed"}
\* start() of session s has not returned yet (its locals are alive).
InStart(s) == \E c \in Callers : sid[c] = s
\* The session's record is in the slot, in a stop() or in a start().
Held(s) == active = s \/ InStart(s) \/ \E c \in Callers : taken[c] = s
\* Nothing of the session is left.
Gone(s) == ~Held(s) /\ ~MixerLive(s) /\ ~LoopbackLive(s)

\* The session's records (ActiveThread fields, the shared flag) last as long
\* as something of the session does; k and f are the values the step gives
\* `kind` and `stop_flag` before that.
Collect(k, f) ==
    /\ kind' = [s \in Sessions |-> IF Gone(s)' THEN "none" ELSE k[s]]
    /\ stop_flag' = [s \in Sessions |-> IF Gone(s)' THEN FALSE ELSE f[s]]

Free(s) == kind[s] = "none"
\* The place a new session is created in.
NewSession == CHOOSE s \in Sessions : Free(s) /\ \A t \in Sessions : Free(t) => s <= t

\* AudioManager::new(), on either build: no session, no call, no thread.
LifeInit ==
    /\ windows \in BOOLEAN
    /\ active = 0
    /\ lock = 0
    /\ pc = [c \in Callers |-> "idle"]
    /\ call = [c \in Callers |-> "none"]
    /\ source = [c \in Callers |-> "none"]
    /\ sid = [c \in Callers |-> 0]
    /\ taken = [c \in Callers |-> 0]
    /\ result = [c \in Callers |-> "none"]
    /\ kind = [s \in Sessions |-> "none"]
    /\ devices = [s \in Sessions |-> <<>>]
    /\ receivers = [s \in Sessions |-> <<>>]
    /\ mixer = [s \in Sessions |-> "none"]
    /\ loopback = [s \in Sessions |-> "none"]
    /\ stop_tx = [s \in Sessions |-> FALSE]
    /\ stopq = [s \in Sessions |-> 0]
    /\ wasapi_q = [s \in Sessions |-> 0]
    /\ stop_flag = [s \in Sessions |-> FALSE]
    /\ ready = [s \in Sessions |-> <<>>]

Init == LifeInit /\ PlaneRest /\ MixRest /\ CallRest /\ LoopRest

----------------------------------------------------------------------------
(* stop(), called as the command or as the first line of start().          *)

\* A call returns to the command handler; r tells how it ended.
Return(c, r) ==
    /\ pc' = [pc EXCEPT ![c] = "idle"]
    /\ call' = [call EXCEPT ![c] = "none"]
    /\ source' = [source EXCEPT ![c] = "none"]
    /\ sid' = [sid EXCEPT ![c] = 0]
    /\ result' = [result EXCEPT ![c] = r]

\* Control after the body of stop() for a call cl with argument src: stop()
\* itself returns Ok(()); inside start() the `self.stop()?` line falls
\* through to the device lookup.
AfterStop(c, cl, src, r) ==
    IF cl = "stop"
    THEN Return(c, r)
    ELSE /\ pc' = [pc EXCEPT ![c] = "resolve"]
         /\ call' = [call EXCEPT ![c] = cl]
         /\ source' = [source EXCEPT ![c] = src]
         /\ result' = [result EXCEPT ![c] = "none"]
         /\ UNCHANGED sid

\* stop_flag.store(true) for a session that has a loopback thread.
SetStopFlag(s) ==
    IF HasFlag(s) THEN [stop_flag EXCEPT ![s] = TRUE] ELSE stop_flag

\* active.stop_tx.send(()): queued while the mixer thread holds stop_rx,
\* an ignored error once the receiver is gone.
SendStop(s) ==
    IF MixerLive(s) THEN [stopq EXCEPT ![s] = @ + 1] ELSE stopq

\* A stop() that reports an empty slot as an error.
StopIdleRefused(c, cl, src) ==
    /\ Return(c, "err_idle")
    /\ UNCHANGED <<planeVars, mixVars, callVars, loopVars>>
    /\ UNCHANGED <<windows, active, lock, taken, sessVars>>

\* stop() finds the slot empty: nothing to do, Ok(()).
StopIdle(c, cl, src) ==
    /\ AfterStop(c, cl, src, "stop_idle")
    /\ UNCHANGED <<planeVars, mixVars, callVars, loopVars>>
    /\ UNCHANGED <<windows, active, lock, taken, sessVars>>

\* A stop() that reads the session and leaves it in the slot.
StopTakeKeepsSlot(c, cl, src) ==
    /\ taken' = [taken EXCEPT ![c] = active]
    /\ active' = active
    /\ lock' = c
    /\ stopq' = SendStop(active)
    /\ pc' = [pc EXCEPT ![c] = "stop_join"]
    /\ call' = [call EXCEPT ![c] = cl]
    /\ source' = [source EXCEPT ![c] = src]
    /\ result' = [result EXCEPT ![c] = "none"]
    /\ UNCHANGED <<planeVars, mixVars, callVars, loopVars>>
    /\ UNCHANGED <<windows, sid, devices, receivers, wasapi_q, mixer, loopback, stop_tx,
                   ready>>
    /\ Collect(kind, SetStopFlag(active))

\* stop() takes the session out of the slot, sets the flag and sends the
\* stop message.  `self.active.lock().unwrap().take()` is the scrutinee of
\* the if-let, so the mutex guard is held until the join has completed.
StopTake(c, cl, src) ==
    /\ taken' = [taken EXCEPT ![c] = active]
    /\ active' = 0
    /\ lock' = c
    /\ stopq' = SendStop(active)
    /\ pc' = [pc EXCEPT ![c] = "stop_join"]
    /\ call' = [call EXCEPT ![c] = cl]
    /\ source' = [source EXCEPT ![c] = src]
    /\ result' = [result EXCEPT ![c] = "none"]
    /\ UNCHANGED <<planeVars, mixVars, callVars, loopVars>>
    /\ UNCHANGED <<windows, sid, devices, receivers, wasapi_q, mixer, loopback, stop_tx,
                   ready>>
    /\ Collect(kind, SetStopFlag(active))

\* The body of stop() up to the join, once the mutex is acquired.
StopEnter(c, cl, src) ==
    /\ pc[c] = "idle"
    /\ lock = 0
    /\ IF active = 0 THEN StopIdle(c, cl, src) ELSE StopTake(c, cl, src)

\* audio_stop_capture: manager.stop().
StopCall(c) == StopEnter(c, "stop", "none")

\* Starts that are past their stop() and will still create a session.
Pending == Cardinality({c \in Callers : pc[c] \in {"stop_join", "resolve"}
                                         /\ source[c] \in {"mic", "system", "mixed"}})

\* audio_start_capture: manager.start(app, &source, device_id), up to the
\* join of `self.stop()?`.
StartCall(c, src) ==
    /\ src = "other" \/ Cardinality({s \in Sessions : Free(s)}) > Pending
    /\ StopEnter(c, "start", src)

\* `if let Some(handle) = active.handle { handle.join() }` can return.
JoinDone(s) == HasHandle(s) => ~MixerLive(s)

\* The join returns, `active` (the taken ActiveThread) goes out of scope and
\* the mutex guard with it.
StopJoin(c) ==
    /\ pc[c] = "stop_join"
    /\ JoinDone(taken[c])
    /\ lock' = 0
    /\ stop_tx' = [stop_tx EXCEPT ![taken[c]] = FALSE]
    /\ taken' = [taken EXCEPT ![c] = 0]
    /\ AfterStop(c, call[c], source[c], "stop_joined")
    /\ UNCHANGED <<planeVars, mixVars, callVars, loopVars>>
    /\ UNCHANGED <<windows, active, devices, receivers, wasapi_q, mixer, loopback, stopq,
                   ready>>
    /\ Collect(kind, stop_flag)

----------------------------------------------------------------------------
(* start() after `self.stop()?`.                                           *)

\* find_device_by_id for "mic": the device found, if any.
MicDevices(micRes) == IF micRes = "some" THEN <<"mic">> ELSE <<>>
\* find_system_device: the device found, if any.
SysDevices(sysRes) == IF sysRes = "some" THEN <<"sys">> ELSE <<>>

\* start() returns Err before it has created a thread.
Refuse(c, r) ==
    /\ Return(c, r)
    /\ UNCHANGED <<planeVars, mixVars, callVars, loopVars>>
    /\ UNCHANGED <<windows, active, lock, taken, sessVars>>

\* thread::spawn of the mixer thread for a new session of kind k that gets
\* the devices devs; lb is the state of the session's loopback thread.
\* start() goes on to ready_rx.recv_timeout.
SpawnMixer(c, k, devs, lb) ==
    LET s == NewSession IN
    /\ kind' = [kind EXCEPT ![s] = k]
    /\ devices' = [devices EXCEPT ![s] = devs]
    /\ mixer' = [mixer EXCEPT ![s] = "build"]
    /\ loopback' = [loopback EXCEPT ![s] = lb]
    /\ stop_tx' = [stop_tx EXCEPT ![s] = TRUE]
    /\ sid' = [sid EXCEPT ![c] = s]
    /\ pc' = [pc EXCEPT ![c] = "wait"]
    /\ UNCHANGED <<planeVars, mixVars, callVars, loopVars>>
    /\ UNCHANGED <<windows, active, lock, call, source, taken, result,
                   receivers, wasapi_q, stopq, stop_flag, ready>>

\* `if devices.is_empty() { return Err(..) }`, otherwise the spawn.
OpenDevices(c, devs) ==
    IF devs = <<>>
    THEN Refuse(c, "err_nodevices")
    ELSE SpawnMixer(c, "cpal", devs, "none")

\* A match whose default arm captures the microphone.
ResolveUnknownAsMic(c) ==
    /\ pc[c] = "resolve"
    /\ source[c] = "other"
    /\ SpawnMixer(c, "cpal", <<"mic">>, "none")

\* `_ => return Err(anyhow!("Unknown source"))`.
ResolveUnknown(c) ==
    /\ pc[c] = "resolve"
    /\ source[c] = "other"
    /\ Refuse(c, "err_unknown")

\* "mic": find_device_by_id(..)? and devices.push.
ResolveMic(c, micRes) ==
    /\ pc[c] = "resolve"
    /\ source[c] = "mic"
    /\ IF micRes = "err"
       THEN Refuse(c, "err_lookup")
       ELSE OpenDevices(c, MicDevices(micRes))

\* A "system" branch that goes to the portable layer on Windows as well.
ResolveSystemPortable(c) ==
    /\ pc[c] = "resolve"
    /\ source[c] = "system"
    /\ windows
    /\ OpenDevices(c, <<"sys">>)

\* "system" on Windows: start_wasapi_loopback_capture spawns its thread and
\* returns Ok(stop_flag); start() goes on to lock the slot.
ResolveSystemWasapi(c) ==
    LET s == NewSession IN
    /\ pc[c] = "resolve"
    /\ source[c] = "system"
    /\ windows
    /\ kind' = [kind EXCEPT ![s] = "wasapi"]
    /\ loopback' = [loopback EXCEPT ![s] = "init"]
    /\ stop_tx' = [stop_tx EXCEPT ![s] = TRUE]
    /\ sid' = [sid EXCEPT ![c] = s]
    /\ pc' = [pc EXCEPT ![c] = "store"]
    /\ UNCHANGED <<planeVars, mixVars, callVars, loopVars>>
    /\ UNCHANGED <<windows, active, lock, call, source, taken, result, devices,
                   receivers, wasapi_q, mixer, stopq, stop_flag, ready>>

\* "system" elsewhere: find_system_device(..)?, Err when there is none.
ResolveSystemCpal(c, sysRes) ==
    /\ pc[c] = "resolve"
    /\ source[c] = "system"
    /\ ~windows
    /\ CASE sysRes = "err" -> Refuse(c, "err_lookup")
         [] sysRes = "none" -> Refuse(c, "err_nosystem")
         [] OTHER -> OpenDevices(c, SysDevices(sysRes))

\* "mixed" on Windows: the loopback thread is spawned first, then the
\* microphone is looked up.  When the lookup fails `?` returns from start()
\* and the loopback thread stays behind with a flag nobody holds.
ResolveMixedWasapi(c, micRes) ==
    /\ pc[c] = "resolve"
    /\ source[c] = "mixed"
    /\ windows
    /\ IF micRes = "err"
       THEN /\ kind' = [kind EXCEPT ![NewSession] = "mixed"]
            /\ loopback' = [loopback EXCEPT ![NewSession] = "init"]
            /\ Return(c, "err_lookup")
            /\ UNCHANGED <<planeVars, mixVars, callVars, loopVars>>
            /\ UNCHANGED <<windows, active, lock, taken, devices, receivers, wasapi_q,
                           mixer, stop_tx, stopq, stop_flag, ready>>
       ELSE SpawnMixer(c, "mixed", MicDevices(micRes), "init")

\* "mixed" elsewhere: both devices through cpal, the system one optional.
ResolveMixedCpal(c, micRes, sysRes) ==
    /\ pc[c] = "resolve"
    /\ source[c] = "mixed"
    /\ ~windows
    /\ IF micRes = "err" \/ sysRes = "err"
       THEN Refuse(c, "err_lookup")
       ELSE OpenDevices(c, MicDevices(micRes) \o SysDevices(sysRes))

\* `if count == 0 { return Err(anyhow!("Failed to start audio capture")) }`:
\* start() returns and drops its stop_tx and ready_rx; the JoinHandle is
\* dropped without a join.
FailStart(c) ==
    /\ stop_tx' = [stop_tx EXCEPT ![sid[c]] = FALSE]
    /\ ready' = [ready EXCEPT ![sid[c]] = <<>>]
    /\ Return(c, "err_notstarted")
    /\ UNCHANGED <<planeVars, mixVars, callVars, loopVars>>
    /\ UNCHANGED <<windows, active, lock, taken, devices, receivers, wasapi_q, mixer,
                   loopback, stopq>>
    /\ Collect(kind, stop_flag)

\* ready_rx.recv_timeout(2s) receives the count the mixer thread sent.
WaitReady(c) ==
    /\ pc[c] = "wait"
    /\ ready[sid[c]] # <<>>
    /\ IF Head(ready[sid[c]]) = 0
       THEN FailStart(c)
       ELSE /\ pc' = [pc EXCEPT ![c] = "store"]
            /\ ready' = [ready EXCEPT ![sid[c]] = Tail(@)]
            /\ UNCHANGED <<planeVars, mixVars, callVars, loopVars>>
            /\ UNCHANGED <<windows, active, lock, call, source, sid, taken,
                           result, kind, devices, receivers, wasapi_q, mixer, loopback,
                           stop_tx, stopq, stop_flag>>

\* The two seconds pass with nothing received: unwrap_or(0).
ReadyTimeout(c) ==
    /\ pc[c] = "wait"
    /\ ready[sid[c]] = <<>>
    /\ FailStart(c)

\* `*guard = Some(ActiveThread { .. })`: the slot is locked only here and is
\* overwritten; an ActiveThread that was in it is dropped (its stop_tx with
\* it, its handle without a join).  start() returns Ok(()).
Store(c) ==
    /\ pc[c] = "store"
    /\ lock = 0
    /\ active' = sid[c]
    /\ stop_tx' = IF active # 0 THEN [stop_tx EXCEPT ![active] = FALSE] ELSE stop_tx
    /\ ready' = [ready EXCEPT ![sid[c]] = <<>>]
    /\ Return(c, "start_ok")
    /\ UNCHANGED <<planeVars, mixVars, callVars, loopVars>>
    /\ UNCHANGED <<windows, lock, taken, devices, receivers, wasapi_q, mixer, loopback,
                   stopq>>
    /\ Collect(kind, stop_flag)

----------------------------------------------------------------------------
(* The mixer thread: the spawned closure and capture_loop.                 *)

\* The devices whose build_input_stream and stream.play() succeeded, in the
\* order of `devices`.
Opened(devs, okMic, okSys) ==
    SelectSeq(devs, LAMBDA d : (d = "mic" /\ okMic) \/ (d = "sys" /\ okSys))

\* The closure up to capture_loop: open the streams, on Windows mixed mode
\* push wasapi_rx, send the count (an ignored error once start() dropped
\* ready_rx), return when there is no receiver.
MixerBuild(s, okMic, okSys) ==
    LET rs == Opened(devices[s], okMic, okSys)
              \o (IF kind[s] = "mixed" THEN <<"wasapi">> ELSE <<>>)
    IN
    /\ mixer[s] = "build"
    /\ devices' = [devices EXCEPT ![s] = <<>>]
    /\ receivers' = [receivers EXCEPT ![s] = rs]
    /\ ready' = IF InStart(s) THEN [ready EXCEPT ![s] = Append(@, Len(rs))] ELSE ready
    /\ mixer' = [mixer EXCEPT ![s] = IF rs = <<>> THEN "none" ELSE "wait"]
    /\ UNCHANGED <<planeVars, mixVars, callVars, loopVars>>
    /\ UNCHANGED <<windows, active, lock, callerVars, loopback, stop_tx, stopq>>
    /\ wasapi_q' = IF rs = <<>> THEN [wasapi_q EXCEPT ![s] = 0] ELSE wasapi_q
    /\ Collect(kind, stop_flag)

\* recv(receivers[0]) can return Ok(buf).  A cpal stream lives as long as the
\* thread and its callback delivers at its own pace; wasapi_rx returns the
\* chunks waiting in it, also after the loopback thread has ended.
PrimaryHasData(s) ==
    \/ receivers[s][1] \in {"mic", "sys"}
    \/ receivers[s][1] = "wasapi" /\ wasapi_q[s] > 0

\* A select! that looks at the stop channel only when the primary queue has
\* nothing to offer.
StopReadyAfterData(s) == (stopq[s] > 0 \/ ~stop_tx[s]) /\ ~PrimaryHasData(s)

\* A stop branch that is ready only when a message is queued.
StopSignalled(s) == stopq[s] > 0

\* recv(stop_rx) of the select! is ready: a message is queued, or every
\* Sender of the stop channel has been dropped.
StopReady(s) == stopq[s] > 0 \/ ~stop_tx[s]

\* recv(receivers[0]) returns Err: the primary queue is empty and every
\* Sender of it is gone.  Only wasapi_tx can be dropped while the mixer runs:
\* start() holds one clone until it returns, the loopback thread the other
\* until it ends.
PrimaryDisconnected(s) ==
    /\ receivers[s][1] = "wasapi"
    /\ wasapi_q[s] = 0
    /\ ~LoopbackLive(s)
    /\ ~InStart(s)

\* capture_loop returns, the closure drops the streams and ends.
MixerExit(s) ==
    /\ mixer' = [mixer EXCEPT ![s] = "none"]
    /\ receivers' = [receivers EXCEPT ![s] = <<>>]
    /\ stopq' = [stopq EXCEPT ![s] = 0]
    /\ wasapi_q' = [wasapi_q EXCEPT ![s] = 0]
    /\ UNCHANGED <<planeVars, mixVars, callVars, loopVars>>
    /\ UNCHANGED <<windows, active, lock, callerVars, devices, loopback,
                   stop_tx, ready>>
    /\ Collect(kind, stop_flag)

\* select! takes the stop branch: break.
MixerSelectStop(s) ==
    /\ mixer[s] = "wait"
    /\ StopReady(s)
    /\ MixerExit(s)

\* select! takes the primary branch with Ok(buf): the iteration goes on.
MixerSelectData(s) ==
    /\ mixer[s] = "wait"
    /\ PrimaryHasData(s)
    /\ mixer' = [mixer EXCEPT ![s] = "cycle"]
    /\ wasapi_q' = IF receivers[s][1] = "wasapi"
                   THEN [wasapi_q EXCEPT ![s] = @ - 1]
                   ELSE wasapi_q
    /\ UNCHANGED <<planeVars, mixVars, callVars, loopVars>>
    /\ UNCHANGED <<windows, active, lock, callerVars, kind, devices, receivers,
                   loopback, stop_tx, stopq, stop_flag, ready>>

\* select! takes the primary branch with Err(_): break.
MixerPrimaryGone(s) ==
    /\ mixer[s] = "wait"
    /\ PrimaryDisconnected(s)
    /\ MixerExit(s)

\* The rest of the iteration: one try_recv per secondary receiver, mix,
\* normalise, emit the chunk, back to the select!.
MixerCycle(s) ==
    /\ mixer[s] = "cycle"
    /\ mixer' = [mixer EXCEPT ![s] = "wait"]
    /\ wasapi_q' = IF receivers[s][1] # "wasapi" /\ wasapi_q[s] > 0
                   THEN [wasapi_q EXCEPT ![s] = @ - 1]
                   ELSE wasapi_q
    /\ UNCHANGED <<planeVars, mixVars, callVars, loopVars>>
    /\ UNCHANGED <<windows, active, lock, callerVars, kind, devices, receivers,
                   loopback, stop_tx, stopq, stop_flag, ready>>

----------------------------------------------------------------------------
(* The WASAPI loopback thread (both variants).                             *)

\* COM and audio-client initialisation; every failure makes the thread
\* return, unnoticed by start().
LoopbackInit(s, ok) ==
    /\ loopback[s] = "init"
    /\ loopback' = [loopback EXCEPT ![s] = IF ok THEN "run" ELSE "none"]
    /\ UNCHANGED <<planeVars, mixVars, callVars, loopVars>>
    /\ UNCHANGED <<windows, active, lock, callerVars, devices, receivers, wasapi_q, mixer,
                   stop_tx, stopq, ready>>
    /\ Collect(kind, stop_flag)

\* Top of the capture loop: break when the flag is set, otherwise fetch the
\* next packet (got) or sleep and come back.  The endpoint has no packet
\* while MaxQueued chunks wait in the wasapi channel.
LoopbackPoll(s, got) ==
    /\ loopback[s] = "run"
    /\ got => wasapi_q[s] < MaxQueued
    /\ loopback' = [loopback EXCEPT ![s] =
           IF stop_flag[s] THEN "none" ELSE IF got THEN "deliver" ELSE "run"]
    /\ UNCHANGED <<planeVars, mixVars, callVars, loopVars>>
    /\ UNCHANGED <<windows, active, lock, callerVars, devices, receivers, wasapi_q, mixer,
                   stop_tx, stopq, ready>>
    /\ Collect(kind, stop_flag)

\* The packet is converted and emitted as audio:chunk ("system") or sent to
\* the mixer ("mixed"): `let _ = tx.send(samples)` queues it while wasapi_rx
\* exists, an ignored error once it has been dropped.
LoopbackDeliver(s) ==
    /\ loopback[s] = "deliver"
    /\ loopback' = [loopback EXCEPT ![s] = "run"]
    /\ wasapi_q' = IF kind[s] = "mixed" /\ MixerLive(s)
                   THEN [wasapi_q EXCEPT ![s] = @ + 1]
                   ELSE wasapi_q
    /\ UNCHANGED <<planeVars, mixVars, callVars, loopVars>>
    /\ UNCHANGED <<windows, active, lock, callerVars, kind, devices, receivers,
                   mixer, stop_tx, stopq, stop_flag, ready>>

----------------------------------------------------------------------------

\* A call that has entered goes on.
CallerInside(c) ==
    \/ StopJoin(c)
    \/ ResolveUnknown(c)
    \/ \E micRes \in Lookups : ResolveMic(c, micRes)
    \/ ResolveSystemWasapi(c)
    \/ \E sysRes \in Lookups : ResolveSystemCpal(c, sysRes)
    \/ \E micRes \in Lookups : ResolveMixedWasapi(c, micRes)
    \/ \E micRes, sysRes \in Lookups : ResolveMixedCpal(c, micRes, sysRes)
    \/ WaitReady(c)
    \/ ReadyTimeout(c)
    \/ Store(c)

CallerStep(c) ==
    \/ StopCall(c)
    \/ \E src \in Sources : StartCall(c, src)
    \/ CallerInside(c)

ThreadStep ==
    \E s \in Sessions :
        \/ \E okMic, okSys \in BOOLEAN : MixerBuild(s, okMic, okSys)
        \/ MixerSelectStop(s)
        \/ MixerSelectData(s)
        \/ MixerPrimaryGone(s)
        \/ MixerCycle(s)
        \/ \E ok \in BOOLEAN : LoopbackInit(s, ok)
        \/ \E got \in BOOLEAN : LoopbackPoll(s, got)
        \/ LoopbackDeliver(s)

\* The commands may overlap: the Tauri commands are async and call the
\* manager without any lock of their own.
Next == (\E c \in Callers : CallerStep(c)) \/ ThreadStep

Spec == Init /\ [][Next]_vars

\* One command at a time: every call is made by caller 1.
SeqNext == CallerStep(1) \/ ThreadStep

SeqSpec == Init /\ [][SeqNext]_vars

\* A start() issued when nothing is left of earlier sessions but the
\* recorded one.
LoneStart(c, src) ==
    /\ \A s \in Sessions : Free(s) \/ s = active
    /\ StartCall(c, src)

\* One command at a time, a new start() only once the threads that earlier
\* calls left behind have ended.
LoneNext ==
    \/ StopCall(1)
    \/ \E src \in Sources : LoneStart(1, src)
    \/ CallerInside(1)
    \/ ThreadStep

\* Every mixer thread runs when it can (WF on the closure and on the rest
\* of an iteration), its select! picks at random among the ready
\* operations (SF on the stop branch), and a join that can return does.
LoneFairness ==
    /\ WF_vars(StopJoin(1))
    /\ \A s \in Sessions :
          /\ WF_vars(\E okMic, okSys \in BOOLEAN : MixerBuild(s, okMic, okSys))
          /\ WF_vars(MixerCycle(s))
          /\ SF_vars(MixerSelectStop(s))

LoneSpec == Init /\ [][LoneNext]_vars /\ LoneFairness

\* The commands of LoneNext by caller 1 and stop commands by caller 2 at any
\* moment: stop() calls overlap each other.
StopRaceNext == LoneNext \/ StopCall(2) \/ StopJoin(2)

StopRaceSpec == Init /\ [][StopRaceNext]_vars

\* Caller 1 issues any command, caller 2 issues stop commands only, at any
\* moment: stop() calls overlap each other and the start() calls of caller 1.
RaceNext == CallerStep(1) \/ StopCall(2) \/ StopJoin(2) \/ ThreadStep

RaceSpec == Init /\ [][RaceNext]_vars

\* A step of the mixer thread a stop() is joining.
JoinedMixerCycle == \E c \in Callers : pc[c] = "stop_join" /\ MixerCycle(taken[c])
JoinedMixerStop == \E c \in Callers : pc[c] = "stop_join" /\ MixerSelectStop(taken[c])

\* The scheduling the runtime gives, as far as a stop() depends on it: a
\* thread that can run does run (WF on the join returning and on the joined
\* mixer finishing its iteration), and crossbeam's select! picks at random
\* among the operations that are ready, so a stop branch that is ready at
\* select! after select! is taken at one of them (SF).
Fairness ==
    /\ WF_vars(\E c \in Callers : StopJoin(c))
    /\ WF_vars(JoinedMixerCycle)
    /\ SF_vars(JoinedMixerStop)

\* Sequential commands under that scheduling, a new start() only once the
\* threads that earlier calls left behind have ended.
FairSpec == Init /\ [][LoneNext]_vars /\ Fairness

----------------------------------------------------------------------------
(* The data plane of one session: the closure that opens the streams, the  *)
(* producer queues, capture_loop's iterations and the events they emit;    *)
(* for "system" on Windows the standalone loopback thread.  Chunks are     *)
(* numbered per producer in the order they are delivered.                  *)

\* Chunks each producer delivers.
MaxChunks == 2

DEFAULT_SAMPLE_RATE == 48000
DEFAULT_CHANNELS == 2

\* Native channel counts and sample rates cpal reports (a rate of 0 is
\* replaced by the default), and what opening a device can end in.
Channels == {1, 2}
Rates == {0, 44100}
Opens == {"ok", "build_err", "play_err"}
\* nChannels and nSamplesPerSec of the render endpoint's mix format.
MixChannels == {1, 2, 6}
MixRates == {44100, 48000}

Devices(n) ==
    [name : {n}, channels : Channels, sample_rate : Rates, open : Opens]

\* What start() can hand to the closure it spawns.
Selections(m) ==
    CASE m = "cpal" ->
           {<<d>> : d \in Devices("mic")}
               \cup (IF windows THEN {}
                     ELSE {<<d>> : d \in Devices("sys")}
                          \cup {<<d, e>> : d \in Devices("mic"), e \in Devices("sys")})
      [] m = "mixed" -> {<<>>} \cup {<<d>> : d \in Devices("mic")}
      [] OTHER -> {<<>>}

PlaneInit ==
    /\ LifeInit
    /\ CallRest
    /\ LoopRest
    /\ profile \in Profiles
    /\ MixIdle
    /\ mode \in (IF windows THEN {"cpal", "mixed", "wasapi"} ELSE {"cpal"})
    /\ selected \in Selections(mode)
    /\ rxs = <<>>
    /\ configs = <<>>
    /\ count = -1
    /\ queue = <<>>
    /\ sent = <<>>
    /\ loop = "build"
    /\ first_chunk = 0
    /\ emitted = <<>>

\* `let mut config: StreamConfig = supported.into()` with the zero-rate fix.
StreamConfigOf(d) ==
    [channels |-> d.channels,
     sample_rate |-> IF d.sample_rate = 0 THEN DEFAULT_SAMPLE_RATE ELSE d.sample_rate]

\* The config pushed for wasapi_rx.
WasapiConfig == [channels |-> DEFAULT_CHANNELS, sample_rate |-> DEFAULT_SAMPLE_RATE]

\* A loop body that pushes the device's config whether or not it opened.
OpenOneAnyConfig(d, acc) ==
    <<IF d.open = "ok" THEN Append(acc[1], d.name) ELSE acc[1],
      Append(acc[2], StreamConfigOf(d))>>

\* One pass of `for device in devices`: receivers.push(rx) and
\* configs.push(cfg) only when build_input_stream and stream.play() succeed.
OpenOne(d, acc) ==
    IF d.open = "ok"
    THEN <<Append(acc[1], d.name), Append(acc[2], StreamConfigOf(d))>>
    ELSE acc

\* The whole loop: <<receivers, configs>> after it.
RECURSIVE OpenAll(_, _)
OpenAll(devs, acc) ==
    IF devs = <<>> THEN acc ELSE OpenAll(Tail(devs), OpenOne(Head(devs), acc))

\* A closure that registers the loopback queue ahead of the devices.
PlaneBuildSystemFirst ==
    LET acc == OpenAll(selected, <<<<>>, <<>>>>)
        rs == (IF mode = "mixed" THEN <<"wasapi">> ELSE <<>>) \o acc[1]
        cs == (IF mode = "mixed" THEN <<WasapiConfig>> ELSE <<>>) \o acc[2]
    IN
    /\ loop = "build"
    /\ mode \in {"cpal", "mixed"}
    /\ rxs' = rs
    /\ configs' = cs
    /\ count' = Len(rs)
    /\ queue' = [i \in 1..Len(rs) |-> <<>>]
    /\ sent' = [i \in 1..Len(rs) |-> 0]
    /\ loop' = IF rs = <<>> THEN "done" ELSE "wait"
    /\ UNCHANGED <<lifeVars, mixVars, callVars, loopVars, mode, selected, first_chunk, emitted>>

\* The closure up to capture_loop.
PlaneBuild ==
    LET acc == OpenAll(selected, <<<<>>, <<>>>>)
        rs == acc[1] \o (IF mode = "mixed" THEN <<"wasapi">> ELSE <<>>)
        cs == acc[2] \o (IF mode = "mixed" THEN <<WasapiConfig>> ELSE <<>>)
    IN
    /\ loop = "build"
    /\ mode \in {"cpal", "mixed"}
    /\ rxs' = rs
    /\ configs' = cs
    /\ count' = Len(rs)
    /\ queue' = [i \in 1..Len(rs) |-> <<>>]
    /\ sent' = [i \in 1..Len(rs) |-> 0]
    /\ loop' = IF rs = <<>> THEN "done" ELSE "wait"
    /\ UNCHANGED <<lifeVars, mixVars, callVars, loopVars, mode, selected, first_chunk, emitted>>

\* A channel that holds one chunk at most.
RoomForOne(q) == Len(q) < 1

\* The producer channels are made with unbounded::<Vec<i16>>(): a send
\* always finds room.
Room(q) == TRUE

\* The producer behind receiver i can still deliver.  The cpal streams are
\* dropped when the closure ends; the loopback thread goes on on its own.
Producing(i) ==
    /\ i \in DOMAIN rxs
    /\ sent[i] < MaxChunks
    /\ loop \in {"wait", "cycle"} \/ rxs[i] = "wasapi"

\* tx.try_send(chunk) in a cpal callback: Ok when there is room, Err(Full)
\* otherwise, Err(Disconnected) once the receiver is gone; the result is
\* ignored and the callback returns.
DeliverTry(i) ==
    /\ Producing(i)
    /\ rxs[i] # "wasapi"
    /\ sent' = [sent EXCEPT ![i] = @ + 1]
    /\ queue' = IF loop # "done" /\ Room(queue[i])
                THEN [queue EXCEPT ![i] = Append(@, sent[i] + 1)]
                ELSE queue
    /\ UNCHANGED <<lifeVars, mixVars, callVars, loopVars, mode, selected, rxs, configs, count, loop,
                   first_chunk, emitted>>

\* A loopback thread that emits the chunk it forwards as well.
DeliverSendAndEmit(i) ==
    /\ Producing(i)
    /\ rxs[i] = "wasapi"
    /\ loop = "done" \/ Room(queue[i])
    /\ sent' = [sent EXCEPT ![i] = @ + 1]
    /\ queue' = IF loop # "done"
                THEN [queue EXCEPT ![i] = Append(@, sent[i] + 1)]
                ELSE queue
    /\ emitted' = Append(emitted, [channels |-> DEFAULT_CHANNELS,
                                   sample_rate |-> DEFAULT_SAMPLE_RATE,
                                   primary |-> sent[i] + 1,
                                   secondary |-> <<>>])
    /\ UNCHANGED <<lifeVars, mixVars, callVars, loopVars, mode, selected, rxs, configs,
                   count, loop, first_chunk>>

\* tx.send(samples) in the loopback thread: waits for room, Err at once
\* when the receiver is gone.
DeliverSend(i) ==
    /\ Producing(i)
    /\ rxs[i] = "wasapi"
    /\ loop = "done" \/ Room(queue[i])
    /\ sent' = [sent EXCEPT ![i] = @ + 1]
    /\ queue' = IF loop # "done"
                THEN [queue EXCEPT ![i] = Append(@, sent[i] + 1)]
                ELSE queue
    /\ UNCHANGED <<lifeVars, mixVars, callVars, loopVars, mode, selected, rxs, configs, count, loop,
                   first_chunk, emitted>>

\* select! returns Ok(buf) from receivers[0].
SelectPrimary ==
    /\ loop = "wait"
    /\ mode \in {"cpal", "mixed"}
    /\ queue[1] # <<>>
    /\ first_chunk' = Head(queue[1])
    /\ queue' = [queue EXCEPT ![1] = Tail(@)]
    /\ loop' = "cycle"
    /\ UNCHANGED <<lifeVars, mixVars, callVars, loopVars, mode, selected, rxs, configs, count, sent,
                   emitted>>

\* select! takes the stop branch (or the primary is disconnected): the loop
\* breaks, the closure drops the streams and ends.
SelectStop ==
    /\ loop = "wait"
    /\ mode \in {"cpal", "mixed"}
    /\ loop' = "done"
    /\ queue' = [i \in DOMAIN queue |-> <<>>]
    /\ UNCHANGED <<lifeVars, mixVars, callVars, loopVars, mode, selected, rxs, configs, count, sent,
                   first_chunk, emitted>>

\* rx.try_recv() on a secondary receiver: the oldest waiting chunk, 0 when
\* there is none.
TryRecv(q) == IF q = <<>> THEN 0 ELSE Head(q)

\* The AudioChunkPayload of capture_loop for primary chunk p mixed with the
\* secondary chunks ss.
MixerPayload(p, ss) ==
    [channels |-> DEFAULT_CHANNELS,
     sample_rate |-> configs[1].sample_rate,
     primary |-> p,
     secondary |-> ss]

\* The rest of the iteration: one try_recv per secondary receiver, mix,
\* emit, back to select!.
MixEmit ==
    /\ loop = "cycle"
    /\ emitted' = Append(emitted,
           MixerPayload(first_chunk, [i \in 1..(Len(rxs) - 1) |-> TryRecv(queue[i + 1])]))
    /\ queue' = [i \in DOMAIN queue |->
                    IF i > 1 /\ queue[i] # <<>> THEN Tail(queue[i]) ELSE queue[i]]
    /\ first_chunk' = 0
    /\ loop' = "wait"
    /\ UNCHANGED <<lifeVars, mixVars, callVars, loopVars, mode, selected, rxs, configs, count, sent>>

\* The iteration panics in `s.abs()` of the peak scan: with overflow checks
\* on, i16::MIN in the mixed buffer (whether this chunk holds one is the
\* producers' doing) unwinds the thread; nothing is emitted for the chunk.
MixPanic ==
    /\ loop = "cycle"
    /\ profile = "debug"
    /\ first_chunk' = 0
    /\ loop' = "done"
    /\ queue' = [i \in DOMAIN queue |-> <<>>]
    /\ UNCHANGED <<lifeVars, mixVars, callVars, loopVars, mode, selected, rxs, configs, count, sent,
                   emitted>>

\* The standalone loopback thread reads the mix format of the render
\* endpoint and starts the stream, or returns on a failure.
LoopbackOpen(ch, rate, ok) ==
    /\ loop = "build"
    /\ mode = "wasapi"
    /\ configs' = IF ok THEN <<[channels |-> ch, sample_rate |-> rate]>>
                  ELSE <<>>
    /\ loop' = IF ok THEN "wait" ELSE "done"
    /\ UNCHANGED <<lifeVars, mixVars, callVars, loopVars, mode, selected, rxs, count, queue, sent,
                   first_chunk, emitted>>

\* The AudioChunkPayload of the standalone loopback thread for its n-th
\* packet: sample_rate and channels of the mix format.
LoopbackPayload(n) ==
    [channels |-> configs[1].channels,
     sample_rate |-> configs[1].sample_rate,
     primary |-> n,
     secondary |-> <<>>]

\* One packet converted and emitted by the standalone loopback thread.
LoopbackEmit ==
    /\ loop = "wait"
    /\ mode = "wasapi"
    /\ Len(emitted) < MaxChunks
    /\ emitted' = Append(emitted, LoopbackPayload(Len(emitted) + 1))
    /\ UNCHANGED <<lifeVars, mixVars, callVars, loopVars, mode, selected, rxs, configs, count, queue,
                   sent, loop, first_chunk>>

\* The standalone loopback thread sees the stop flag and ends.
LoopbackStop ==
    /\ loop = "wait"
    /\ mode = "wasapi"
    /\ loop' = "done"
    /\ UNCHANGED <<lifeVars, mixVars, callVars, loopVars, mode, selected, rxs, configs, count, queue,
                   sent, first_chunk, emitted>>

PlaneNext ==
    \/ PlaneBuild
    \/ \E i \in 1..2 : DeliverTry(i)
    \/ \E i \in 1..2 : DeliverSend(i)
    \/ SelectPrimary
    \/ SelectStop
    \/ MixEmit
    \/ MixPanic
    \/ \E ch \in MixChannels, rate \in MixRates, ok \in BOOLEAN :
          LoopbackOpen(ch, rate, ok)
    \/ LoopbackEmit
    \/ LoopbackStop

PlaneSpec == PlaneInit /\ [][PlaneNext]_vars

----------------------------------------------------------------------------
(* One iteration of capture_loop at the level of samples.                  *)

\* Frames per chunk drawn for an iteration.
MaxFrames == 1

I16_MIN == -32768
I16_MAX == 32767

\* Sample values the primary producer delivers: both ends of i16, silence
\* and a mid-scale value (in its longest chunks the low end and the
\* mid-scale value); the secondary producer: both ends.
Levels == {I16_MIN, 0, 20000, I16_MAX}
LongLevels == {I16_MIN, 20000}
SecLevels == {I16_MIN, I16_MAX}

Min(a, b) == IF a < b THEN a ELSE b
Max(a, b) == IF a > b THEN a ELSE b

\* `as i16` of an f32, `clamp(i16::MIN as f32, i16::MAX as f32)`.
Clamp16(x) == IF x > I16_MAX THEN I16_MAX ELSE IF x < I16_MIN THEN I16_MIN ELSE x

\* An addition that keeps the low 16 bits of the sum.
wrapping_add(a, b) == ((a + b + 32768) % 65536) - 32768

\* i16::saturating_add.
saturating_add(a, b) == Clamp16(a + b)

\* Integer division of Rust: truncation toward zero.
TruncDiv(a, b) == IF a >= 0 THEN a \div b ELSE -((-a) \div b)

\* f32::round of n / d: to the nearest integer, halves away from zero.
RoundDiv(n, d) == IF n >= 0 THEN (2 * n + d) \div (2 * d) ELSE -((2 * (-n) + d) \div (2 * d))

\* A secondary sample passed on at full level.
FullLevel(s) == s

\* A secondary sample after `(*s as f32) * system_mix_gain`, round, clamp.
\* For every i16 the f32 product rounds as s / 10 does.
Attenuate(s) == Clamp16(RoundDiv(s, 10))

\* Every chunk of `channels` interleaved channels and up to MaxFrames frames
\* over the sample values `levels`.
Chunks(channels, levels) ==
    UNION {[1..(f * channels) -> levels] : f \in 0..MaxFrames}

\* A primary chunk: up to MaxFrames frames over Levels, or one frame more
\* over LongLevels.
FirstChunks(channels) ==
    Chunks(channels, Levels) \cup [1..((MaxFrames + 1) * channels) -> LongLevels]

\* A secondary chunk: up to MaxFrames + 1 frames, so shorter than, as long
\* as and longer than the primary chunk it meets.
SecChunks(channels) ==
    UNION {[1..(f * channels) -> SecLevels] : f \in 0..(MaxFrames + 1)}

\* A chunk the secondary producer has queued behind the one in front.
LaterChunk(channels) == [j \in 1..channels |-> I16_MAX]

\* The secondary queue when the iteration starts: the chunk try_recv will
\* return in front and at most one behind it; when that is to be <<>> the
\* queue is empty or a chunk without samples is in front.
SecQueues(buf, channels) ==
    (IF buf = <<>> THEN {<<>>} ELSE {}) \cup {<<buf>>, <<buf, LaterChunk(channels)>>}

\* A receive that empties the queue.
DrainAll(q) == <<>>

\* The queue of a secondary receiver after its one rx.try_recv().
AfterTryRecv(q) == IF q = <<>> THEN q ELSE Tail(q)

\* A fill that adds source sample k to target sample k whatever the channel
\* counts are.
FillDirect(target, src, src_channels, dst_channels, frames) ==
    [j \in 1..Len(target) |->
        IF j <= frames * dst_channels /\ j <= Len(src)
        THEN saturating_add(target[j], src[j])
        ELSE target[j]]

\* fill_buffer_i16: target after src was added into it.
fill_buffer_i16(target, src, src_channels, dst_channels, frames) ==
    IF src = <<>> \/ target = <<>> \/ src_channels = 0 \/ dst_channels = 0
    THEN target
    ELSE LET n == Min(Min(frames, Len(target) \div dst_channels),
                      Len(src) \div src_channels)
         IN  IF src_channels = 1 /\ dst_channels = 2
             THEN [j \in 1..Len(target) |->
                     LET i == (j - 1) \div dst_channels
                     IN  IF i < n /\ (j - 1) % dst_channels < 2
                         THEN saturating_add(target[j], src[i + 1])
                         ELSE target[j]]
             ELSE IF src_channels = dst_channels
             THEN LET limit == Min(Min(n * src_channels, Len(target)), Len(src))
                  IN  [j \in 1..Len(target) |->
                          IF j <= limit
                          THEN saturating_add(target[j], src[j])
                          ELSE target[j]]
             ELSE IF src_channels = 2 /\ dst_channels = 1
             THEN [j \in 1..Len(target) |->
                     LET left_idx == (j - 1) * src_channels
                         right_idx == left_idx + 1
                     IN  IF j - 1 < n /\ right_idx < Len(src)
                         THEN saturating_add(target[j],
                                  TruncDiv(src[left_idx + 1] + src[right_idx + 1], 2))
                         ELSE target[j]]
             ELSE [j \in 1..Len(target) |->
                     LET i == (j - 1) \div dst_channels
                         dst_ch == (j - 1) % dst_channels
                         src_idx == i * src_channels + (dst_ch % src_channels)
                     IN  IF i < n /\ src_idx < Len(src)
                         THEN saturating_add(target[j], src[src_idx + 1])
                         ELSE target[j]]

\* first_samples: frames of the primary chunk.
FirstSamples(buf, ch) == Len(buf) \div Max(ch, 1)

\* `mixed` after the primary chunk was filled into the zeroed buffer.
MixFirst(buf, ch) ==
    fill_buffer_i16([j \in 1..(FirstSamples(buf, ch) * DEFAULT_CHANNELS) |-> 0],
                    buf, ch, DEFAULT_CHANNELS, FirstSamples(buf, ch))

\* `mixed` after one secondary chunk was attenuated and filled in.
MixOther(target, buf, dev_ch, first_samples) ==
    fill_buffer_i16(target, [j \in 1..Len(buf) |-> Attenuate(buf[j])], dev_ch,
                    DEFAULT_CHANNELS, Min(Len(buf) \div Max(dev_ch, 1), first_samples))

\* `mixed` before the peak scan; sbuf = <<>> when try_recv returned nothing
\* or a chunk without samples.
Accumulated(fbuf, fch, sbuf, sch) ==
    IF sbuf = <<>>
    THEN MixFirst(fbuf, fch)
    ELSE MixOther(MixFirst(fbuf, fch), sbuf, sch, FirstSamples(fbuf, fch))

\* `s.abs()` overflows on i16::MIN: a panic with overflow checks on.
AbsOverflows(buf) == \E j \in DOMAIN buf : buf[j] = I16_MIN

\* The absolute value taken after widening to i32.
abs_i32(s) == IF s < 0 THEN -s ELSE s

\* `s.abs() as i32` with overflow checks off: i16::MIN wraps to itself.
wrapping_abs(s) == IF s = I16_MIN THEN I16_MIN ELSE IF s < 0 THEN -s ELSE s

\* max_amp: the fold of acc.max(s.abs() as i32) from 0.
RECURSIVE MaxAmp(_, _)
MaxAmp(buf, acc) ==
    IF buf = <<>> THEN acc ELSE MaxAmp(Tail(buf), Max(acc, wrapping_abs(Head(buf))))

\* The normalisation step: scale by 32767.0 / max_amp when max_amp > 32767.
Normalize(buf) ==
    LET max_amp == MaxAmp(buf, 0)
    IN  IF max_amp > I16_MAX
        THEN [j \in DOMAIN buf |-> Clamp16(RoundDiv(buf[j] * I16_MAX, max_amp))]
        ELSE buf

\* Whether the normalisation branch is taken for this buffer.
Normalizes(buf) == MaxAmp(buf, 0) > I16_MAX

\* The chunks one iteration works on: any build profile, a primary chunk
\* and at most one chunk from the second receiver.
MixInit ==
    /\ LifeInit
    /\ CallRest
    /\ LoopRest
    /\ mode = "cpal"
    /\ selected = <<>>
    /\ rxs \in {<<"mic", "sys">>, <<"sys", "mic">>}
    /\ configs \in [1..2 -> {StreamConfigOf(d) : d \in Devices("mic")}]
    /\ count = 2
    /\ sent = <<0, 0>>
    /\ loop = "cycle"
    /\ first_chunk = 0
    /\ emitted = <<>>
    /\ profile \in Profiles
    /\ first_ch = configs[1].channels
    /\ first_buf \in FirstChunks(first_ch)
    /\ sec_ch = configs[2].channels
    /\ sec_buf \in SecChunks(sec_ch)
    /\ queue \in {<<<<>>, q>> : q \in SecQueues(sec_buf, sec_ch)}
    /\ mixed = <<>>
    /\ outcome = "none"

\* A payload tagged with the rate of the last producer.
ChunkPayloadLastRate(data) ==
    [sample_rate |-> configs[Len(configs)].sample_rate,
     channels |-> DEFAULT_CHANNELS,
     data |-> data]

\* The AudioChunkPayload of capture_loop for the buffer `data` (data_base64
\* holds its samples).
ChunkPayload(data) ==
    [sample_rate |-> configs[1].sample_rate,
     channels |-> DEFAULT_CHANNELS,
     data |-> data]

\* The iteration runs to app.emit.
MixChunk ==
    /\ outcome = "none"
    /\ ~(profile = "debug" /\ AbsOverflows(Accumulated(first_buf, first_ch, sec_buf, sec_ch)))
    /\ mixed' = Normalize(Accumulated(first_buf, first_ch, sec_buf, sec_ch))
    /\ emitted' = Append(emitted, ChunkPayload(mixed'))
    /\ queue' = [i \in DOMAIN queue |-> IF i > 1 THEN AfterTryRecv(queue[i]) ELSE queue[i]]
    /\ loop' = "wait"
    /\ outcome' = "emitted"
    /\ UNCHANGED <<lifeVars, callVars, loopVars, mode, selected, rxs, configs, count,
                   sent, first_chunk, profile, first_buf, first_ch, sec_buf, sec_ch>>

\* The iteration panics in the peak scan; the accumulated buffer is lost.
MixOverflow ==
    /\ outcome = "none"
    /\ profile = "debug"
    /\ AbsOverflows(Accumulated(first_buf, first_ch, sec_buf, sec_ch))
    /\ queue' = [i \in DOMAIN queue |-> <<>>]
    /\ loop' = "done"
    /\ outcome' = "panicked"
    /\ UNCHANGED <<lifeVars, callVars, loopVars, mode, selected, rxs, configs, count,
                   sent, first_chunk, emitted, profile, first_buf, first_ch, sec_buf,
                   sec_ch, mixed>>

MixNext == MixChunk \/ MixOverflow

MixSpec == MixInit /\ [][MixNext]_vars

----------------------------------------------------------------------------
(* The device catalogue: list_devices, build_device_info,                  *)
(* find_device_by_id, find_system_device.  A name is the sequence of its   *)
(* characters.                                                             *)

\* Devices the host reports in one enumeration.
MaxDevices == 2

\* Device names as the OS reports them.
NameStereoMix ==
    <<"S", "t", "e", "r", "e", "o", " ", "M", "i", "x", " ", "(", "R", "e", "a", "l", "t", "e", "k", ")">>
NameUsbMic ==
    <<"U", "S", "B", " ", "M", "i", "c", "r", "o", "p", "h", "o", "n", "e">>
NameMonitor ==
    <<"M", "o", "n", "i", "t", "o", "r", " ", "o", "f", " ", "B", "u", "i", "l", "t", "-", "i", "n", " ", "A", "u", "d", "i", "o">>
NameBlackHole ==
    <<"B", "l", "a", "c", "k", "H", "o", "l", "e", " ", "2", "c", "h">>
NameLoopback ==
    <<"L", "o", "o", "p", "b", "a", "c", "k", " ", "A", "u", "d", "i", "o">>
NameSoundflower ==
    <<"S", "o", "u", "n", "d", "f", "l", "o", "w", "e", "r", " ", "(", "2", "c", "h", ")">>
\* The name build_device_info gives a device whose name() fails.
NameUnknown ==
    <<"U", "n", "k", "n", "o", "w", "n">>
\* A name no device has.
NameAbsent ==
    <<"L", "i", "n", "e", " ", "I", "n">>
Names == {NameStereoMix, NameUsbMic, NameMonitor, NameBlackHole, NameLoopback,
          NameSoundflower}

\* The substrings the code looks for.
PatLoopback ==
    <<"l", "o", "o", "p", "b", "a", "c", "k">>
PatMonitor ==
    <<"m", "o", "n", "i", "t", "o", "r">>
PatStereoMix ==
    <<"s", "t", "e", "r", "e", "o", " ", "m", "i", "x">>
PatBlackhole ==
    <<"b", "l", "a", "c", "k", "h", "o", "l", "e">>
PatSoundflower ==
    <<"s", "o", "u", "n", "d", "f", "l", "o", "w", "e", "r">>

UpperCase ==
    <<"A", "B", "C", "D", "E", "F", "G", "H", "I", "J", "K", "L", "M", "N", "O", "P", "Q", "R", "S", "T", "U", "V", "W", "X", "Y", "Z">>
LowerCase ==
    <<"a", "b", "c", "d", "e", "f", "g", "h", "i", "j", "k", "l", "m", "n", "o", "p", "q", "r", "s", "t", "u", "v", "w", "x", "y", "z">>

\* A name compared as it is written.
SameCase(s) == s

\* str::to_lowercase on the letters A-Z.
to_lowercase(s) ==
    [i \in DOMAIN s |->
        IF \E k \in DOMAIN UpperCase : UpperCase[k] = s[i]
        THEN LowerCase[CHOOSE k \in DOMAIN UpperCase : UpperCase[k] = s[i]]
        ELSE s[i]]

\* str::contains.
contains(s, pat) ==
    \E i \in 0..(Len(s) - Len(pat)) : \A j \in 1..Len(pat) : s[i + j] = pat[j]

\* What cpal answers for a device's input configuration: "default"
\* (default_input_config is Ok), "first" (it is Err, supported_input_configs
\* yields a config), "empty" (supported_input_configs is Ok and yields
\* nothing), "none" (both are Err).
InputConfigs == {"default", "first", "empty", "none"}

\* A device: its name (named = FALSE: name() fails) and its input configs.
CatalogDevices(names, cfgs) ==
    [name : names, named : {TRUE}, cfg : cfgs]
        \cup [name : {<<>>}, named : {FALSE}, cfg : {"default"}]

\* Sequences of up to MaxDevices elements of D.
SeqUpTo(D) == UNION {[1..n -> D] : n \in 0..MaxDevices}

\* A host: whether host.devices() succeeds, the devices it yields in order,
\* and default_input_device() as a position in them (0: None).
Hosts(names, cfgs, defaults) ==
    {[enum_ok |-> TRUE, devices |-> ds, default_input |-> k] :
        ds \in SeqUpTo(CatalogDevices(names, cfgs)),
        k \in {n \in defaults : n <= MaxDevices}}
    \cup {[enum_ok |-> FALSE, devices |-> <<>>, default_input |-> 0]}

\* The `kind` of build_device_info for a device name.
Classify(name) ==
    LET lower == to_lowercase(name)
    IN  IF \/ contains(lower, PatLoopback)
           \/ contains(lower, PatMonitor)
           \/ contains(lower, PatStereoMix)
           \/ contains(lower, PatBlackhole)
           \/ contains(lower, PatSoundflower)
        THEN "system"
        ELSE "mic"

\* build_device_info reads a config: default_input_config(), or else the
\* first of supported_input_configs().
ConfigRead(d) == d.cfg \in {"default", "first"}

\* The AudioDeviceInfo of build_device_info (id, name, kind; channels and
\* sample_rate are those of the config read).
build_device_info(d) ==
    LET name == IF d.named THEN d.name ELSE NameUnknown
    IN  [id |-> name, name |-> name, kind |-> Classify(name)]

\* A list_devices that gives up at the first device it cannot describe.
ListOrFail(host) ==
    IF host.enum_ok /\ \A i \in DOMAIN host.devices : ConfigRead(host.devices[i])
    THEN [done |-> TRUE, ok |-> TRUE,
          value |-> [i \in DOMAIN host.devices |-> build_device_info(host.devices[i])]]
    ELSE [done |-> TRUE, ok |-> FALSE, value |-> <<>>]

\* The `out` of list_devices after the devices ds.
RECURSIVE PushInfos(_, _)
PushInfos(ds, out) ==
    IF ds = <<>> THEN out
    ELSE PushInfos(Tail(ds),
                   IF ConfigRead(Head(ds)) THEN Append(out, build_device_info(Head(ds)))
                   ELSE out)

\* AudioManager::list_devices: Err when host.devices() fails.
list_devices(host) ==
    IF host.enum_ok
    THEN [done |-> TRUE, ok |-> TRUE, value |-> PushInfos(host.devices, <<>>)]
    ELSE [done |-> TRUE, ok |-> FALSE, value |-> <<>>]

\* The first position among those in S, 0 when S is empty.
FirstOf(S) == IF S = {} THEN 0 ELSE CHOOSE i \in S : \A j \in S : i <= j

\* find_device_by_id: the device found as a position in host.devices
\* (0: None).  host.devices() is called only when an id is given.
find_device_by_id(host, id) ==
    LET hits == {i \in DOMAIN host.devices :
                    host.devices[i].named /\ host.devices[i].name = id.name}
    IN  IF id.some /\ ~host.enum_ok
        THEN [done |-> TRUE, ok |-> FALSE, value |-> 0]
        ELSE IF id.some /\ hits # {}
        THEN [done |-> TRUE, ok |-> TRUE, value |-> FirstOf(hits)]
        ELSE [done |-> TRUE, ok |-> TRUE, value |-> host.default_input]

\* The tier of a lower-cased name in find_system_device (cfg(not(windows))),
\* -1 for `continue`.
Priority(lower) ==
    IF contains(lower, PatLoopback) THEN 0
    ELSE IF contains(lower, PatMonitor) THEN 1
    ELSE IF contains(lower, PatStereoMix) THEN 2
    ELSE IF contains(lower, PatBlackhole) \/ contains(lower, PatSoundflower) THEN 3
    ELSE -1

\* `default_input_config().is_ok() || configs.next().is_some()`.
HasInputConfig(d) == d.cfg \in {"default", "first"}

\* `default_input_config().is_ok() || supported_input_configs().is_ok()`.
InputConfigsOk(d) == d.cfg \in {"default", "first", "empty"}

\* find_system_device as built without cfg(windows) (start() does not call
\* it on Windows): the device found as a position in host.devices.
find_system_device(host, id) ==
    LET ds == host.devices
        byId == {i \in DOMAIN ds :
                    /\ ds[i].named
                    /\ ds[i].name = id.name
                    /\ Classify(ds[i].name) = "system"
                    /\ InputConfigsOk(ds[i])}
        candidates == {i \in DOMAIN ds :
                          /\ ds[i].named
                          /\ Priority(to_lowercase(ds[i].name)) >= 0
                          /\ HasInputConfig(ds[i])}
        best == {i \in candidates :
                    \A j \in candidates :
                        Priority(to_lowercase(ds[i].name)) <= Priority(to_lowercase(ds[j].name))}
    IN  IF ~host.enum_ok
        THEN [done |-> TRUE, ok |-> FALSE, value |-> 0]
        ELSE IF id.some /\ byId # {}
        THEN [done |-> TRUE, ok |-> TRUE, value |-> FirstOf(byId)]
        ELSE [done |-> TRUE, ok |-> TRUE, value |-> FirstOf(best)]

\* Option<&str>: None and the ids a caller passes.
NoId == [some |-> FALSE, name |-> <<>>]
Ids(names) == {NoId} \cup [some : {TRUE}, name : names]

\* The calls looked at: any host of up to MaxDevices devices; the id of a
\* device that may or may not be there.
DeviceArgs(f) ==
    CASE f = "list_devices" ->
           [host : Hosts(Names, InputConfigs, {0}), id : {NoId}]
      [] f = "find_device_by_id" ->
           [host : Hosts(Names, {"default"}, 0..MaxDevices),
            id : Ids({NameUsbMic, NameStereoMix, NameAbsent})]
      [] OTHER ->
           [host : Hosts(Names, InputConfigs, {0}),
            id : Ids({NameBlackHole, NameUsbMic, NameAbsent})]

DeviceInit ==
    /\ LifeInit
    /\ ~windows
    /\ PlaneRest
    /\ MixRest
    /\ LoopRest
    /\ func \in {"list_devices", "find_device_by_id", "find_system_device"}
    /\ arg \in DeviceArgs(func)
    /\ arg.host.default_input <= Len(arg.host.devices)
    /\ ret = [done |-> FALSE]

ListDevicesCall ==
    /\ func = "list_devices"
    /\ ~ret.done
    /\ ret' = list_devices(arg.host)
    /\ UNCHANGED <<lifeVars, planeVars, mixVars, loopVars, func, arg>>

FindDeviceCall ==
    /\ func = "find_device_by_id"
    /\ ~ret.done
    /\ ret' = find_device_by_id(arg.host, arg.id)
    /\ UNCHANGED <<lifeVars, planeVars, mixVars, loopVars, func, arg>>

FindSystemCall ==
    /\ func = "find_system_device"
    /\ ~ret.done
    /\ ret' = find_system_device(arg.host, arg.id)
    /\ UNCHANGED <<lifeVars, planeVars, mixVars, loopVars, func, arg>>

DeviceNext == ListDevicesCall \/ FindDeviceCall \/ FindSystemCall

DeviceSpec == DeviceInit /\ [][DeviceNext]_vars

----------------------------------------------------------------------------
(* The sample conversions of the data callbacks in build_input_stream.     *)

\* An f32 sample: NaN, or the dyadic rational num / den.  For the values
\* drawn here the product with 32767.0 is exact in f32.
F32Samples ==
    {[nan |-> FALSE, num |-> n, den |-> 16] : n \in -20..20}
        \cup {[nan |-> FALSE, num |-> n, den |-> 131072] : n \in {-1, 1}}
        \cup {[nan |-> TRUE, num |-> 0, den |-> 1]}

I16Samples == {I16_MIN, -32767, -20000, -1, 0, 1, 20000, I16_MAX}

U16Samples == {0, 1, 12768, 32767, 32768, 32769, 52768, 65534, 65535}

\* `s.max(-1.0).min(1.0)`: f32::max and f32::min return the other operand
\* when one is NaN, so NaN becomes -1.0.
Clamp1(x) ==
    IF x.nan \/ x.num < -x.den THEN [nan |-> FALSE, num |-> -1, den |-> 1]
    ELSE IF x.num > x.den THEN [nan |-> FALSE, num |-> 1, den |-> 1]
    ELSE x

\* `as i16` of an i32: the low 16 bits.
Wrap16(x) == ((x + 32768) % 65536) - 32768

\* F32 callback: `(clamped * 32767.0).round() as i16`.
ConvertF32(x) == Clamp16(RoundDiv(Clamp1(x).num * 32767, Clamp1(x).den))

\* I16 callback: data.to_vec().
ConvertI16(s) == s

\* U16 callback: `((s as i32) - 32768) as i16`.
ConvertU16(s) == Wrap16(s - 32768)

\* A callback is handed a sample of the stream's native format.
ConvertInit ==
    /\ LifeInit
    /\ PlaneRest
    /\ MixRest
    /\ LoopRest
    /\ func \in {"f32", "i16", "u16"}
    /\ arg \in (CASE func = "f32" -> F32Samples
                  [] func = "i16" -> I16Samples
                  [] OTHER -> U16Samples)
    /\ ret = [done |-> FALSE]

ConvertF32Call ==
    /\ func = "f32"
    /\ ~ret.done
    /\ ret' = [done |-> TRUE, value |-> ConvertF32(arg)]
    /\ UNCHANGED <<lifeVars, planeVars, mixVars, loopVars, func, arg>>

ConvertI16Call ==
    /\ func = "i16"
    /\ ~ret.done
    /\ ret' = [done |-> TRUE, value |-> ConvertI16(arg)]
    /\ UNCHANGED <<lifeVars, planeVars, mixVars, loopVars, func, arg>>

ConvertU16Call ==
    /\ func = "u16"
    /\ ~ret.done
    /\ ret' = [done |-> TRUE, value |-> ConvertU16(arg)]
    /\ UNCHANGED <<lifeVars, planeVars, mixVars, loopVars, func, arg>>

ConvertNext == ConvertF32Call \/ ConvertI16Call \/ ConvertU16Call

ConvertSpec == ConvertInit /\ [][ConvertNext]_vars

----------------------------------------------------------------------------
(* fill_buffer_i16 on its own.                                             *)

\* Frames in the target, in the source and in the `frames` argument.
MaxFillFrames == 2

\* Values already in the target, and values of the source: both ends of i16
\* against a small negative and a small positive contribution.
TargetLevels == {I16_MIN, I16_MAX}
SrcLevels == {-3, 2}

\* Channel counts of the source (3: more channels than the output has) and
\* of the target.
SrcChannels == {1, 2, 3}
DstChannels == {1, 2}

\* Interleaved buffers of up to MaxFillFrames frames.
Buffers(channels, levels) ==
    UNION {[1..(f * channels) -> levels] : f \in 0..MaxFillFrames}

FillArgs ==
    UNION {[target : Buffers(dc, TargetLevels), src : Buffers(sc, SrcLevels),
            src_channels : {sc}, dst_channels : {dc}, frames : 0..MaxFillFrames] :
           sc \in SrcChannels, dc \in DstChannels}

FillInit ==
    /\ LifeInit
    /\ PlaneRest
    /\ MixRest
    /\ LoopRest
    /\ func = "fill_buffer_i16"
    /\ arg \in FillArgs
    /\ ret = [done |-> FALSE]

FillCall ==
    /\ func = "fill_buffer_i16"
    /\ ~ret.done
    /\ ret' = [done |-> TRUE,
               value |-> fill_buffer_i16(arg.target, arg.src, arg.src_channels,
                                         arg.dst_channels, arg.frames)]
    /\ UNCHANGED <<lifeVars, planeVars, mixVars, loopVars, func, arg>>

FillNext == FillCall

FillSpec == FillInit /\ [][FillNext]_vars

----------------------------------------------------------------------------
(* One WASAPI loopback thread (start_wasapi_loopback_capture and           *)
(* start_wasapi_loopback_capture_for_mixing) and the flag stop() sets.     *)

\* Where the thread puts a chunk: app.emit or tx.send.
Sinks == {"emit", "send"}

\* actual_bits_per_sample: 16 and 32 are converted, anything else is skipped.
BitDepths == {16, 24, 32}

LoopInit ==
    /\ LifeInit
    /\ PlaneRest
    /\ MixRest
    /\ CallRest
    /\ sink \in Sinks
    /\ bits \in BitDepths
    /\ cancel = FALSE
    /\ at = "init"
    /\ delivered = 0
    /\ late = 0

\* COM, endpoint, client and stream set-up: any failure is a bare return.
LoopStart(ok) ==
    /\ at = "init"
    /\ at' = IF ok THEN "top" ELSE "ended"
    /\ UNCHANGED <<lifeVars, planeVars, mixVars, callVars, sink, bits, cancel,
                   delivered, late>>

\* stop(): stop_flag.store(true).
SetFlag ==
    /\ ~cancel
    /\ cancel' = TRUE
    /\ UNCHANGED <<lifeVars, planeVars, mixVars, callVars, sink, bits, at,
                   delivered, late>>

\* A loop top that fetches first and reads the flag only when there is no
\* packet.
LoopTopDataFirst(got) ==
    /\ at = "top"
    /\ at' = IF got /\ bits \in {16, 32} /\ delivered < MaxChunks THEN "packet"
             ELSE IF cancel THEN "ended"
             ELSE "top"
    /\ UNCHANGED <<lifeVars, planeVars, mixVars, callVars, sink, bits, cancel,
                   delivered, late>>

\* The top of the loop: break when the flag is set; otherwise GetBuffer,
\* and sleep and continue unless it gave a packet (got) of a depth the
\* match converts.
LoopTop(got) ==
    /\ at = "top"
    /\ at' = IF cancel THEN "ended"
             ELSE IF got /\ bits \in {16, 32} /\ delivered < MaxChunks THEN "packet"
             ELSE "top"
    /\ UNCHANGED <<lifeVars, planeVars, mixVars, callVars, sink, bits, cancel,
                   delivered, late>>

\* The rest of the iteration: ReleaseBuffer, then app.emit or tx.send.
LoopDeliver ==
    /\ at = "packet"
    /\ delivered' = delivered + 1
    /\ late' = IF cancel THEN late + 1 ELSE late
    /\ at' = "top"
    /\ UNCHANGED <<lifeVars, planeVars, mixVars, callVars, sink, bits, cancel>>

LoopStep ==
    \/ \E ok \in BOOLEAN : LoopStart(ok)
    \/ \E got \in BOOLEAN : LoopTop(got)
    \/ LoopDeliver

LoopNext == SetFlag \/ LoopStep

\* The thread waits for nothing but a 10 ms sleep and a send into an
\* unbounded channel: while it has a step to take it takes one.
LoopFairness == WF_vars(LoopStep)

LoopSpec == LoopInit /\ [][LoopNext]_vars /\ LoopFairness

----------------------------------------------------------------------------
(* Properties.                                                             *)

\* No call is in progress.
Quiet == \A c \in Callers : pc[c] = "idle"

\* Producers of session s that have actually started: the cpal streams behind
\* its receivers and a loopback thread that has reached its capture loop.
ProducersStarted(s) ==
    Cardinality({i \in DOMAIN receivers[s] : receivers[s][i] \in {"mic", "sys"}})
        + (IF loopback[s] \in {"run", "deliver"} THEN 1 ELSE 0)

\* The mixer thread of s has passed its handshake and its stop channel is
\* still held by a start() or by a stored ActiveThread.
Running(s) == mixer[s] \in {"wait", "cycle"} /\ stop_tx[s]

\* C1: with sequential start/stop calls, whenever no call is in progress at
\* most one mixer thread is alive.
C1_AtMostOneMixer ==
    Quiet => Cardinality({s \in Sessions : MixerLive(s)}) <= 1

\* C2: with overlapping start() calls two sessions are never running at the
\* same time: no two mixer threads are in capture_loop with their stop
\* channels still held.
C2_MutualExclusion ==
    \A s, t \in Sessions : Running(s) /\ Running(t) => s = t

\* C3: when stop() returns, every thread of the session it stopped (mixer
\* and loopback) has terminated.
C3_StopJoinsAll ==
    [][\A c \in Callers : \A s \in Sessions :
          (pc[c] = "stop_join" /\ pc'[c] # "stop_join" /\ taken[c] = s)
              => (~MixerLive(s))' /\ (~LoopbackLive(s))']_vars

\* C4: when start() returns an error the slot is empty and no thread of that
\* attempt is running: neither a thread of the session it was building nor
\* one created by the returning step itself.
C4_CleanFailure ==
    [][\A c \in Callers :
          (pc[c] \in {"resolve", "wait"} /\ pc'[c] = "idle")
              => /\ active' = 0
                 /\ \A s \in Sessions :
                       /\ sid[c] = s => (~MixerLive(s))' /\ (~LoopbackLive(s))'
                       /\ ~LoopbackLive(s) => (~LoopbackLive(s))']_vars

\* C5: start() records the session (and returns success) only when at least
\* one of its producers has started.
C5_ConfirmedBeforeStore ==
    [][\A c \in Callers :
          (pc[c] = "store" /\ pc'[c] = "idle") => ProducersStarted(sid[c]) >= 1]_vars

\* C6: stop() is idempotent.  A stop() that finds the slot empty returns
\* Ok(()) and changes nothing; a stop() of a stored session returns Ok(())
\* with the slot empty and the mixer thread joined; a stop() called right
\* after a stop() returned finds the slot empty, so it returns Ok(()) and
\* leaves the state the first one left.
C6_StopIdempotent ==
    [][\A c \in Callers :
          /\ (StopCall(c) /\ active = 0)
                => /\ IsOk(result'[c])
                   /\ pc'[c] = "idle"
                   /\ UNCHANGED <<active, lock, taken, sessVars>>
          /\ (StopCall(c) /\ result[c] \in {"stop_idle", "stop_joined"})
                => active = 0
          /\ (pc[c] = "stop_join" /\ call[c] = "stop" /\ pc'[c] # "stop_join")
                => /\ IsOk(result'[c])
                   /\ active' = 0
                   /\ \A s \in Sessions : taken[c] = s => (~MixerLive(s))']_vars

\* The state between the two stop() calls: the first one stopped a running
\* session and has returned, the slot is empty.
C6_Witness ==
    /\ pc[1] = "idle"
    /\ result[1] = "stop_joined"
    /\ active = 0

\* C7: stop() always terminates.  Once a stop() has taken a session and sent
\* the stop signal, its join returns (which needs the mixer thread to have
\* left its loop), whether or not the primary producer keeps delivering.
\* The mutex allows one stop() in the join at a time.
C7_StopTerminates ==
    (\E c \in Callers : pc[c] = "stop_join") ~> (\A c \in Callers : pc[c] # "stop_join")

\* stop() waits in the join while the mixer is in the middle of an iteration
\* on a chunk of a cpal primary, which delivers without end.
C7_Witness ==
    /\ pc[1] = "stop_join"
    /\ call[1] = "stop"
    /\ mixer[taken[1]] = "cycle"
    /\ receivers[taken[1]][1] = "mic"

\* C8: when a start() follows a start(), every thread of the first session
\* has terminated before the second one spawns its threads: at the spawn no
\* session that has been told to stop has a live thread.
C8_FirstJoinedBeforeSecond ==
    [][\A c \in Callers :
          (pc[c] = "resolve" /\ pc'[c] \in {"wait", "store"})
              => \A s \in Sessions :
                    (stop_flag[s] \/ stopq[s] > 0)
                        => ~MixerLive(s) /\ ~LoopbackLive(s)]_vars

\* C9: a session recorded in the slot with a mixer thread has that thread
\* alive: the mixer never ends on its own while the slot records it.
C9_RunningHasMixer ==
    active # 0 /\ HasHandle(active) => MixerLive(active)

\* C10: start() with an unknown source returns an error, spawns no thread and
\* stores no session; the slot is empty afterwards and no session's stop
\* channel is held any more, whatever was running before the call.
C10_UnknownSource ==
    [][\A c \in Callers :
          (pc[c] = "resolve" /\ source[c] = "other" /\ pc'[c] # "resolve")
              => /\ pc'[c] = "idle"
                 /\ ~IsOk(result'[c])
                 /\ result'[c] # "none"
                 /\ UNCHANGED <<mixer, loopback, kind>>
                 /\ active' = 0
                 /\ \A s \in Sessions : ~stop_tx'[s]]_vars

\* A start() with an unknown source is stopping the session that was running
\* when it was called.
C10_Witness ==
    /\ pc[1] = "stop_join"
    /\ source[1] = "other"
    /\ MixerLive(taken[1])

\* C11: every audio:chunk event, from capture_loop or from the standalone
\* loopback thread, carries the fixed output channel count 2 whatever the
\* native channel count of the device is.
C11_FixedChannelTag ==
    \A k \in DOMAIN emitted : emitted[k].channels = DEFAULT_CHANNELS

\* C12: the mixer emits exactly one event for each chunk it takes from the
\* primary queue, in the order the chunks were enqueued: select! takes the
\* oldest chunk, the iteration that took a chunk ends by emitting it, and
\* the k-th event carries the k-th chunk.
C12_OneEventPerPrimaryChunk ==
    [][/\ (loop = "wait" /\ loop' = "cycle")
            => first_chunk' = Head(queue[1]) /\ queue'[1] = Tail(queue[1])
       /\ (loop = "cycle" /\ loop' # "cycle")
            => /\ Len(emitted') = Len(emitted) + 1
               /\ emitted'[Len(emitted')].primary = first_chunk
       /\ (mode \in {"cpal", "mixed"} /\ emitted' # emitted)
            => /\ loop = "cycle"
               /\ emitted' = Append(emitted, emitted'[Len(emitted')])
               /\ emitted'[Len(emitted')].primary = Len(emitted')]_vars

\* C13: every sample of every chunk the mixer emits has an absolute value of
\* at most 32767, whatever the primary and secondary samples were.
C13_OutputWithinMax ==
    outcome = "emitted"
        => \A j \in DOMAIN mixed : mixed[j] <= I16_MAX /\ -mixed[j] <= I16_MAX

\* The accumulated sum of an iteration without clipping: the primary
\* contribution plus the attenuated secondary contribution, each filled
\* into a silent buffer of its own.
TrueSum ==
    LET silent == [j \in 1..(FirstSamples(first_buf, first_ch) * DEFAULT_CHANNELS) |-> 0]
        prim == MixFirst(first_buf, first_ch)
        other == IF sec_buf = <<>> THEN silent
                 ELSE MixOther(silent, sec_buf, sec_ch, FirstSamples(first_buf, first_ch))
    IN  [j \in DOMAIN silent |-> prim[j] + other[j]]

\* The largest absolute value of TrueSum.
TruePeak ==
    LET mags == {0} \cup {IF TrueSum[j] < 0 THEN -TrueSum[j] ELSE TrueSum[j] :
                            j \in DOMAIN TrueSum}
    IN  CHOOSE m \in mags : \A k \in mags : k <= m

\* C14: when the unclipped sum of primary and attenuated secondary exceeds
\* 32767 somewhere in an iteration, every emitted sample is that sum scaled
\* by 32767 / peak, to within one unit of rounding.
C14_LinearScaling ==
    (outcome = "emitted" /\ TruePeak > I16_MAX)
        => \A j \in DOMAIN mixed :
              LET d == mixed[j] * TruePeak - TrueSum[j] * I16_MAX
              IN  d <= TruePeak /\ -d <= TruePeak

\* C15: secondary data is never buffered across mixer iterations: when an
\* iteration ends, no chunk that was waiting in a secondary queue during
\* it is still waiting there.
C15_SecondaryNotBuffered ==
    [][(loop = "cycle" /\ loop' = "wait")
          => \A i \in DOMAIN queue :
                i > 1 => \A k \in DOMAIN queue'[i] :
                            \A n \in DOMAIN queue[i] : queue'[i][k] # queue[i][n]]_vars

\* C16: each producer queue is bounded and a delivery to a full queue is
\* dropped: of the MaxChunks chunks a producer delivers to a mixer that
\* takes none, at least one is not enqueued.
C16_BoundedQueue ==
    \A i \in DOMAIN queue : Len(queue[i]) < MaxChunks

\* C17: a producer's push never waits for the mixer: whatever the mixer is
\* doing (waiting in select!, busy in an iteration, ended), a producer that
\* has a chunk to deliver can complete its push.
C17_PushNeverBlocks ==
    \A i \in DOMAIN rxs :
        Producing(i) => ENABLED (DeliverTry(i) \/ DeliverSend(i))

\* The loopback producer of mixed mode has pushed twice onto a queue the
\* mixer, busy in an iteration, has not taken from.
C17_Witness ==
    \E i \in DOMAIN rxs :
        /\ rxs[i] = "wasapi"
        /\ loop = "cycle"
        /\ sent[i] >= 2
        /\ Len(queue[i]) >= 2

\* C18: on Windows a start with source "system" is routed to the loopback
\* backend alone: leaving the source match it has created a loopback
\* session, spawned no mixer thread and handed over no device, and no
\* system device is ever opened through cpal, whether the loopback thread
\* comes up or not.
C18_SystemOnlyLoopback ==
    [][windows =>
         /\ \A c \in Callers :
               (source[c] = "system" /\ pc[c] = "resolve" /\ pc'[c] # "resolve")
                  => /\ pc'[c] = "store"
                     /\ kind'[sid'[c]] = "wasapi"
                     /\ devices' = devices
                     /\ receivers' = receivers
                     /\ mixer' = mixer
         /\ \A s \in Sessions :
               /\ \A k \in DOMAIN devices'[s] : devices'[s][k] # "sys"
               /\ \A k \in DOMAIN receivers'[s] : receivers'[s][k] # "sys"
               /\ kind'[s] = "wasapi"
                    => mixer'[s] = "none" /\ devices'[s] = <<>> /\ receivers'[s] = <<>>]_vars

\* A "system" start on Windows is past the source match and its loopback
\* thread has already given up in its initialisation.
C18_Witness ==
    /\ windows
    /\ \E c \in Callers :
          /\ pc[c] = "store"
          /\ source[c] = "system"
          /\ kind[sid[c]] = "wasapi"
          /\ loopback[sid[c]] = "none"

\* C19: a loopback backend that fails in its initialisation surfaces as an
\* error of start(): no session that start() recorded (and returned Ok for)
\* has a loopback thread that gave up before capturing, its stop flag
\* never set.
C19_LoopbackFailureSurfaced ==
    \A s \in Sessions :
        (active = s /\ HasFlag(s) /\ ~stop_flag[s]) => loopback[s] # "none"

\* The selected devices whose stream was built and started, in order.
OpenedDevices == SelectSeq(selected, LAMBDA d : d.open = "ok")

\* C20: a device that fails to open (unsupported sample format, build or
\* play failure) costs its own producer only.  Once the closure has gone
\* through the devices, the receivers are exactly the devices that opened,
\* in order (followed by the loopback queue in Windows mixed mode), the
\* configs are theirs index by index, the count reported to start() is
\* their number, and it is zero, with the mixer not running, only when
\* nothing was pushed.
C20_OpenFailureIsLocal ==
    (mode \in {"cpal", "mixed"} /\ loop # "build")
        => /\ rxs = [i \in 1..Len(OpenedDevices) |-> OpenedDevices[i].name]
                       \o (IF mode = "mixed" THEN <<"wasapi">> ELSE <<>>)
           /\ Len(configs) = Len(rxs)
           /\ \A i \in 1..Len(OpenedDevices) :
                 /\ i \in DOMAIN configs
                 /\ configs[i] = StreamConfigOf(OpenedDevices[i])
           /\ mode = "mixed" => configs[Len(configs)] = WasapiConfig
           /\ count = Len(rxs)
           /\ count > 0 <=> (OpenedDevices # <<>> \/ mode = "mixed")
           /\ count = 0 => loop = "done" /\ emitted = <<>>
           /\ loop \in {"wait", "cycle"} => count > 0

\* Two devices were selected, the first failed to open, the second opened
\* with a config different from the first's, and the mixer runs on it alone.
C20_Witness ==
    /\ Len(selected) = 2
    /\ selected[1].open # "ok"
    /\ selected[2].open = "ok"
    /\ StreamConfigOf(selected[1]) # StreamConfigOf(selected[2])
    /\ loop = "cycle"
    /\ rxs = <<selected[2].name>>
    /\ configs = <<StreamConfigOf(selected[2])>>

\* C21: list_devices returns, in the order of the enumeration, exactly the
\* devices for which a default input config or a first supported input
\* config could be read; a device without one is left out and the call
\* still returns Ok.
C21_EnumerateSkipsUnreadable ==
    (func = "list_devices" /\ ret.done /\ arg.host.enum_ok)
        => LET readable == SelectSeq(arg.host.devices,
                               LAMBDA d : d.cfg = "default" \/ d.cfg = "first")
           IN  /\ ret.ok
               /\ Len(ret.value) = Len(readable)
               /\ \A i \in 1..Len(readable) :
                     /\ i \in DOMAIN ret.value
                     /\ ret.value[i].name =
                            (IF readable[i].named THEN readable[i].name ELSE NameUnknown)
                     /\ ret.value[i].id = ret.value[i].name

\* Two devices were enumerated, the first without any readable config, and
\* the list returned holds the second alone.
C21_Witness ==
    /\ func = "list_devices"
    /\ ret.done
    /\ ret.ok
    /\ Len(arg.host.devices) = 2
    /\ arg.host.devices[1].cfg \in {"empty", "none"}
    /\ arg.host.devices[2].cfg = "first"
    /\ Len(ret.value) = 1
    /\ ret.value[1].name = arg.host.devices[2].name

\* C22: the kind list_devices reports depends on the lower-cased name
\* alone: a name containing "loopback", "monitor", "stereo mix",
\* "blackhole" or "soundflower" is a system device, every other name a
\* microphone; "Stereo Mix (Realtek)" is system, "USB Microphone" is mic.
C22_ClassifyByName ==
    (func = "list_devices" /\ ret.done /\ ret.ok)
        => \A i \in DOMAIN ret.value :
              /\ ret.value[i].kind \in {"system", "mic"}
              /\ ret.value[i].kind = "system"
                    <=> ret.value[i].name \in {NameStereoMix, NameMonitor, NameBlackHole,
                                               NameLoopback, NameSoundflower}
              /\ ret.value[i].name = NameStereoMix => ret.value[i].kind = "system"
              /\ ret.value[i].name = NameUsbMic => ret.value[i].kind = "mic"

\* The list returned holds "Stereo Mix (Realtek)" as a system device and
\* "USB Microphone" as a microphone.
C22_Witness ==
    /\ func = "list_devices"
    /\ ret.done
    /\ ret.ok
    /\ \E i, j \in DOMAIN ret.value :
          /\ ret.value[i].name = NameStereoMix /\ ret.value[i].kind = "system"
          /\ ret.value[j].name = NameUsbMic /\ ret.value[j].kind = "mic"

\* The devices of the call that satisfy a tier and expose an input config.
TierCandidates ==
    {i \in DOMAIN arg.host.devices :
        /\ arg.host.devices[i].named
        /\ Priority(to_lowercase(arg.host.devices[i].name)) >= 0
        /\ arg.host.devices[i].cfg \in {"default", "first"}}

\* The tier of device i of the call.
TierOf(i) == Priority(to_lowercase(arg.host.devices[i].name))

\* C23: without a native loopback backend find_system_device returns the
\* candidate of the best tier (loopback, monitor, stereo mix, virtual
\* cable), the first enumerated one inside a tier, only ever a device that
\* exposes an input config, and nothing when no device satisfies a tier.
C23_BestTierFirst ==
    (func = "find_system_device" /\ ret.done /\ ret.ok)
        => /\ ret.value = 0 <=> TierCandidates = {}
           /\ ret.value # 0
                 => /\ ret.value \in TierCandidates
                    /\ \A j \in TierCandidates :
                          \/ TierOf(ret.value) < TierOf(j)
                          \/ TierOf(ret.value) = TierOf(j) /\ ret.value <= j

\* C24: find_device_by_id returns the device named exactly as the id when
\* an id is given and the default input device when none is given; an id
\* that names no enumerated device resolves to no device at all.
C24_ResolveMicrophone ==
    (func = "find_device_by_id" /\ ret.done /\ ret.ok)
        => LET named == {i \in DOMAIN arg.host.devices :
                            /\ arg.host.devices[i].named
                            /\ arg.host.devices[i].name = arg.id.name}
           IN  /\ ~arg.id.some => ret.value = arg.host.default_input
               /\ (arg.id.some /\ named # {}) => ret.value \in named
               /\ (arg.id.some /\ named = {}) => ret.value = 0

\* C25: conversion to i16 is the identity for an i16 sample, s - 32768 for
\* a u16 sample (onto -32768..32767), and for an f32 sample x the value
\* round(clamp(x, -1, 1) * 32767) with halves rounded up, which lies in
\* -32767..32767, has the sign of x and is 16384 for x = 0.5.
C25_Conversion ==
    ret.done
        => /\ func = "i16" => ret.value = arg
           /\ func = "u16" => ret.value = arg - 32768 /\ ret.value \in I16_MIN..I16_MAX
           /\ (func = "f32" /\ ~arg.nan)
                 => LET c == IF arg.num > arg.den THEN [num |-> 1, den |-> 1]
                             ELSE IF arg.num < -arg.den THEN [num |-> -1, den |-> 1]
                             ELSE [num |-> arg.num, den |-> arg.den]
                    IN  /\ ret.value = (2 * c.num * 32767 + c.den) \div (2 * c.den)
                        /\ ret.value \in -32767..32767
                        /\ arg.num > 0 => ret.value >= 0
                        /\ arg.num < 0 => ret.value <= 0
                        /\ 2 * arg.num = arg.den => ret.value = 16384

\* C26: the stop signal wins the wait of the mixer: a select! performed
\* with a stop message already in the stop channel never returns a primary
\* chunk, whether or not primary data is available.
C26_StopWinsWait ==
    [][\A s \in Sessions :
          (mixer[s] = "wait" /\ stopq[s] > 0) => mixer'[s] # "cycle"]_vars

\* C27: the chunk emitted for an iteration holds exactly F * 2 samples,
\* F being the length of the primary chunk divided by the channel count of
\* producer 0, and carries the sample rate negotiated for producer 0,
\* whatever the other producer's rate is.
C27_FramesAndRate ==
    outcome = "emitted"
        => /\ Len(emitted) = 1
           /\ Len(emitted[1].data) = (Len(first_buf) \div configs[1].channels) * 2
           /\ emitted[1].sample_rate = configs[1].sample_rate

\* A stereo primary chunk of a 44100 Hz producer was mixed with a chunk of
\* a 48000 Hz producer and emitted.
C27_Witness ==
    /\ outcome = "emitted"
    /\ configs[1] = [channels |-> 2, sample_rate |-> 44100]
    /\ configs[2].sample_rate = 48000
    /\ Len(first_buf) = 2
    /\ sec_buf # <<>>
    /\ Len(emitted[1].data) = 2
    /\ emitted[1].sample_rate = 44100

\* The samples a call of fill_buffer_i16 can contribute: the source samples
\* and, from a stereo source into a mono target, the averages of its pairs.
Contributions ==
    {arg.src[k] : k \in DOMAIN arg.src}
        \cup (IF arg.src_channels = 2 /\ arg.dst_channels = 1
              THEN {TruncDiv(arg.src[k] + arg.src[k + 1], 2) :
                        k \in {n \in DOMAIN arg.src : n + 1 \in DOMAIN arg.src}}
              ELSE {})

\* C28: accumulation into the output buffer saturates in every channel
\* mapping: each output sample is either left as it was or is
\* min(32767, max(-32768, current + contribution)), never a wrapped sum.
C28_SaturatingAccumulation ==
    (func = "fill_buffer_i16" /\ ret.done)
        => /\ Len(ret.value) = Len(arg.target)
           /\ \A j \in DOMAIN arg.target :
                 /\ ret.value[j] \in I16_MIN..I16_MAX
                 /\ \/ ret.value[j] = arg.target[j]
                    \/ \E c \in Contributions :
                          /\ arg.target[j] + c > I16_MAX => ret.value[j] = I16_MAX
                          /\ arg.target[j] + c < I16_MIN => ret.value[j] = I16_MIN
                          /\ arg.target[j] + c \in I16_MIN..I16_MAX
                                => ret.value[j] = arg.target[j] + c

\* One call saturated at the top in one output sample and at the bottom in
\* another.
C28_Witness ==
    /\ func = "fill_buffer_i16"
    /\ ret.done
    /\ \E j, k \in DOMAIN arg.target :
          /\ arg.target[j] = I16_MAX /\ ret.value[j] = I16_MAX
          /\ arg.target[k] = I16_MIN /\ ret.value[k] = I16_MIN
          /\ arg.src_channels = 1 /\ arg.dst_channels = 2
          /\ arg.frames >= 1
          /\ arg.src = <<2, -3>>
          /\ j = 1 /\ k = 4

\* C29: into a 2-channel output, frame i of the output gets, in channel d,
\* the source sample of frame i and channel d mod N added (N the source
\* channel count: a mono sample goes to both channels, a stereo sample k to
\* output sample k), for the frames processed; every other output sample is
\* left unchanged.
C29_RemapTable ==
    (func = "fill_buffer_i16" /\ ret.done /\ arg.dst_channels = 2)
        => LET n == Min(Min(arg.frames, Len(arg.target) \div 2),
                        Len(arg.src) \div arg.src_channels)
           IN  /\ Len(ret.value) = Len(arg.target)
               /\ \A j \in DOMAIN arg.target :
                     LET i == (j - 1) \div 2
                         d == (j - 1) % 2
                     IN  IF i < n
                         THEN ret.value[j] =
                                Clamp16(arg.target[j]
                                        + arg.src[i * arg.src_channels
                                                  + (d % arg.src_channels) + 1])
                         ELSE ret.value[j] = arg.target[j]

\* A 3-channel source of two frames was filled into a 2-frame output with
\* frames = 1: the first output frame changed, the second did not.
C29_Witness ==
    /\ func = "fill_buffer_i16"
    /\ ret.done
    /\ arg.src_channels = 3
    /\ arg.dst_channels = 2
    /\ arg.frames = 1
    /\ Len(arg.src) = 6
    /\ Len(arg.target) = 4
    /\ ret.value[1] # arg.target[1]
    /\ ret.value[2] # arg.target[2]
    /\ ret.value[3] = arg.target[3]
    /\ ret.value[4] = arg.target[4]

\* The source sample that lands in output sample j of a 2-channel buffer
\* from a source of `channels` channels.
SourceAt(buf, channels, j) ==
    buf[((j - 1) \div 2) * channels + (((j - 1) % 2) % channels) + 1]

\* C30: in an emitted chunk the samples of producer 0 enter at full level
\* and each sample s of the other producer enters as round(0.1 * s), at most
\* 3277 in absolute value, whichever of the two is the microphone.
C30_PositionalAttenuation ==
    outcome = "emitted"
        => LET frames == Min(Len(sec_buf) \div sec_ch, Len(first_buf) \div first_ch)
           IN  \A j \in DOMAIN mixed :
                  LET p == SourceAt(first_buf, first_ch, j)
                      q == IF (j - 1) \div 2 < frames
                           THEN RoundDiv(SourceAt(sec_buf, sec_ch, j), 10)
                           ELSE 0
                  IN  /\ q \in -3277..3277
                      /\ mixed[j] = Clamp16(p + q)

\* The system source is producer 0 and the microphone is the other one: a
\* full-scale microphone sample entered a chunk at a tenth of its level.
C30_Witness ==
    /\ outcome = "emitted"
    /\ rxs = <<"sys", "mic">>
    /\ Len(mixed) = 2
    /\ first_buf[1] = 20000
    /\ sec_buf # <<>>
    /\ sec_buf[1] = I16_MIN
    /\ mixed[1] = 20000 - 3277

\* C31: an iteration takes at most one chunk from the secondary queue and
\* leaves the chunks behind it as they were; of the chunk taken only the
\* first min(F, its frame count) frames enter the F output frames, nothing
\* of it is put back, and the output frames beyond them (all of them when
\* no chunk was waiting) equal the primary signal alone.
C31_SecondaryLockStep ==
    [][(outcome = "none" /\ outcome' = "emitted")
        => LET F == Len(first_buf) \div first_ch
               got == IF queue[2] = <<>> THEN <<>> ELSE Head(queue[2])
               frames == Min(F, Len(got) \div sec_ch)
           IN  /\ got = sec_buf
               /\ queue'[2] = (IF queue[2] = <<>> THEN <<>> ELSE Tail(queue[2]))
               /\ queue'[1] = queue[1]
               /\ Len(mixed') = F * 2
               /\ \A j \in DOMAIN mixed' :
                     IF (j - 1) \div 2 < frames
                     THEN mixed'[j] = Clamp16(SourceAt(first_buf, first_ch, j)
                                              + Attenuate(SourceAt(got, sec_ch, j)))
                     ELSE mixed'[j] = SourceAt(first_buf, first_ch, j)]_vars

\* A two-frame primary chunk at 20000 met a one-frame secondary chunk with
\* another chunk queued behind it: the first output frame carries both, the
\* second the primary alone, and the later chunk still waits.
C31_Witness ==
    /\ outcome = "emitted"
    /\ first_ch = 1
    /\ first_buf = <<20000, 20000>>
    /\ sec_ch = 1
    /\ sec_buf = <<I16_MAX>>
    /\ mixed = <<20000 + 3277, 20000 + 3277, 20000, 20000>>
    /\ queue[2] = <<LaterChunk(1)>>

\* The microphone was handed to the closure and opened.
MicOpened == \E i \in DOMAIN selected : selected[i].name = "mic" /\ selected[i].open = "ok"

\* A system source was registered: the loopback queue of a Windows mixed
\* session, or a system device that opened.
SystemRegistered ==
    \/ mode = "mixed"
    \/ \E i \in DOMAIN selected : selected[i].name = "sys" /\ selected[i].open = "ok"

\* C32: the producer registered first is producer 0.  Once the closure has
\* gone through the devices, producer 0 is the microphone whenever the
\* microphone opened, and the system source when it did not and a system
\* source was registered; an iteration starts only by taking the oldest
\* chunk of producer 0, leaving the other queues alone, and the chunk
\* emitted for it is tagged with producer 0's sample rate and carries that
\* chunk as its primary part.
C32_FirstRegisteredPaces ==
    [][/\ (mode \in {"cpal", "mixed"} /\ loop' # "build")
            => /\ MicOpened => rxs'[1] = "mic"
               /\ (~MicOpened /\ SystemRegistered) => rxs'[1] \in {"sys", "wasapi"}
               /\ (MicOpened /\ SystemRegistered)
                     => Len(rxs') = 2 /\ rxs'[2] \in {"sys", "wasapi"}
       /\ (loop = "wait" /\ loop' = "cycle")
            => /\ queue[1] # <<>>
               /\ first_chunk' = Head(queue[1])
               /\ \A i \in DOMAIN queue : i > 1 => queue'[i] = queue[i]
       /\ (mode \in {"cpal", "mixed"} /\ emitted' # emitted)
            => /\ emitted'[Len(emitted')].primary = first_chunk
               /\ emitted'[Len(emitted')].sample_rate = configs[1].sample_rate]_vars

\* Windows mixed mode, the microphone failed to open: the loopback queue is
\* the only producer and a chunk of it has been emitted as the primary part.
C32_Witness ==
    /\ mode = "mixed"
    /\ selected # <<>>
    /\ selected[1].open = "build_err"
    /\ rxs = <<"wasapi">>
    /\ Len(emitted) = 1
    /\ emitted[1].primary = 1
    /\ emitted[1].secondary = <<>>

\* C33: the loopback loop reads the flag once, at the top of an iteration.
\* After the flag has been set the thread delivers at most one more chunk,
\* the one of the iteration it was in, and a thread that keeps running
\* ends.
C33_LoopbackCancelPrompt ==
    /\ [](late <= 1)
    /\ [][(cancel /\ at = "top") => at' \in {"top", "ended"}]_vars
    /\ (cancel /\ sink \in Sinks) ~> (at = "ended")

\* The flag was set during an iteration; the chunk of that iteration was
\* delivered and the thread has ended.
C33_Witness ==
    /\ cancel
    /\ late = 1
    /\ delivered = MaxChunks
    /\ at = "ended"

\* C34: in mixed mode a chunk captured by the loopback thread goes into the
\* mixer's queue (as long as the mixer holds its receiver) and is never
\* emitted by that thread; a chunk event of the session comes from an
\* iteration of the mixer thread only.  In standalone system capture there
\* is no queue and the loopback thread emits.
C34_LoopbackForwardsOnly ==
    [][/\ (mode = "mixed" /\ sent' # sent /\ sent # <<>>)
            => /\ emitted' = emitted
               /\ \A i \in DOMAIN sent :
                     (sent'[i] # sent[i] /\ loop # "done")
                        => queue'[i] = Append(queue[i], sent'[i])
       /\ (mode = "mixed" /\ emitted' # emitted)
            => /\ loop = "cycle"
               /\ sent' = sent
               /\ emitted' = Append(emitted,
                     MixerPayload(first_chunk,
                                  [i \in 1..(Len(rxs) - 1) |-> TryRecv(queue[i + 1])]))
       /\ (mode = "wasapi" /\ emitted' # emitted)
            => /\ loop = "wait"
               /\ rxs = <<>>
               /\ queue' = <<>>
               /\ emitted' = Append(emitted, LoopbackPayload(Len(emitted) + 1))]_vars

\* Mixed mode behind a microphone: the loopback thread has forwarded two
\* chunks; the first went out inside the mixer's one event, the second is
\* still waiting in the mixer's queue.
C34_Witness ==
    /\ mode = "mixed"
    /\ rxs = <<"mic", "wasapi">>
    /\ sent[2] = 2
    /\ Len(emitted) = 1
    /\ emitted[1].secondary = <<1>>
    /\ queue[2] = <<2>>

\* C35: one mixer iteration completes for every input: no chunk, whatever
\* its samples, makes the mixer thread abort.
C35_NoMixerAbort ==
    outcome # "panicked"

\* C36: the peak the mixer computes over the accumulated buffer is never
\* above 32767, so the normalisation branch is never taken: the emitted
\* buffer is the accumulated one, each sample the saturating sum of the
\* primary sample and the attenuated secondary sample of its position.
C36_NormalizationIdle ==
    LET acc == Accumulated(first_buf, first_ch, sec_buf, sec_ch)
        frames == Min(Len(sec_buf) \div sec_ch, Len(first_buf) \div first_ch)
    IN  /\ (first_ch # 0 /\ (profile = "release" \/ ~AbsOverflows(acc)))
              => MaxAmp(acc, 0) <= I16_MAX /\ ~Normalizes(acc)
        /\ outcome = "emitted"
              => /\ mixed = acc
                 /\ emitted[1].data = acc
                 /\ \A j \in DOMAIN mixed :
                       mixed[j] =
                         saturating_add(
                           saturating_add(0, SourceAt(first_buf, first_ch, j)),
                           IF (j - 1) \div 2 < frames
                           THEN Attenuate(SourceAt(sec_buf, sec_ch, j))
                           ELSE 0)

\* Full scale on both producers: the sum saturated at 32767 and was emitted
\* as it was.
C36_Witness ==
    /\ outcome = "emitted"
    /\ first_ch = 1
    /\ first_buf = <<I16_MAX>>
    /\ sec_ch = 1
    /\ sec_buf = <<I16_MAX>>
    /\ mixed = <<I16_MAX, I16_MAX>>

\* C37: when stop() calls overlap, a recorded session is taken out of the
\* slot by one call only, which sends its stop message once and joins its
\* mixer thread before it returns; a stop() that cannot take it waits for
\* the mutex and finds the slot empty; every stop() returns Ok and the slot
\* is empty when it does.
C37_ConcurrentStops ==
    /\ [](\A c \in Callers :
             taken[c] # 0
                => /\ active = 0
                   /\ lock = c
                   /\ pc[c] = "stop_join"
                   /\ \A d \in Callers : d # c => taken[d] = 0)
    /\ [](\A s \in Sessions : stopq[s] <= 1)
    /\ [][\A c \in Callers :
             /\ (taken[c] = 0 /\ taken'[c] # 0)
                   => /\ active = taken'[c]
                      /\ lock = 0
                      /\ stopq'[taken'[c]] = (IF MixerLive(taken'[c]) THEN 1 ELSE 0)
             /\ (pc[c] = "stop_join" /\ pc'[c] # "stop_join")
                   => /\ HasHandle(taken[c]) => ~MixerLive(taken[c])
                      /\ active' = 0
                      /\ taken'[c] = 0
                      /\ call[c] = "stop" => result'[c] = "stop_joined"
             /\ (call[c] # "start" /\ result'[c] # result[c] /\ result'[c] # "none")
                   => /\ result'[c] \in {"stop_idle", "stop_joined"}
                      /\ active' = 0]_vars

\* Caller 2's stop() has taken the session caller 1 started and is joining
\* its mixer thread; caller 1 is idle and its stop() cannot get past the
\* mutex.
C37_Witness ==
    /\ pc[2] = "stop_join"
    /\ call[2] = "stop"
    /\ taken[2] # 0
    /\ MixerLive(taken[2])
    /\ pc[1] = "idle"
    /\ result[1] = "start_ok"
    /\ ~ENABLED StopCall(1)

\* C38: when a stop() returns, no session whose start() began before that
\* stop() began is running: a start() that is in progress at that moment
\* has no live thread of the session it is building.
C38_StopCoversStartInProgress ==
    [][\A c \in Callers :
          (call[c] # "start" /\ result'[c] # result[c]
              /\ result'[c] \in {"stop_idle", "stop_joined"})
             => \A d \in Callers \ {c} :
                   sid'[d] # 0
                      => /\ mixer'[sid'[d]] \notin {"build", "wait", "cycle"}
                         /\ loopback'[sid'[d]] \notin {"init", "run", "deliver"}]_vars

\* C39: a stop() on a session whose mixer thread has already ended does not
\* wait: its join can return at once, it returns Ok and leaves the slot
\* empty, and a start() can be issued after it; a mixer thread whose stop
\* Sender has been dropped with no message sent leaves its loop.
C39_ExitedOrOrphanedMixer ==
    /\ [](\A c \in Callers :
             (pc[c] = "stop_join" /\ ~MixerLive(taken[c])) => ENABLED StopJoin(c))
    /\ [][\A c \in Callers :
             (pc[c] = "stop_join" /\ pc'[c] # "stop_join")
                => /\ active' = 0
                   /\ call[c] = "stop" => result'[c] = "stop_joined"]_vars
    /\ []((pc[1] = "idle" /\ \A s \in Sessions : Free(s) \/ s = active)
             => ENABLED StartCall(1, "mic"))
    /\ (pc[1] = "stop_join" /\ ~MixerLive(taken[1])) ~> (pc[1] # "stop_join")
    /\ \A s \in Sessions :
          (mixer[s] \in {"wait", "cycle"} /\ ~stop_tx[s]) ~> ~MixerLive(s)

\* A start() failed after spawning: its mixer thread runs in capture_loop
\* with the stop Sender dropped and no stop message, outside any call.
C39_Witness ==
    \E s \in Sessions :
        /\ mixer[s] \in {"wait", "cycle"}
        /\ ~stop_tx[s]
        /\ stopq[s] = 0
        /\ active # s
        /\ ~InStart(s)
        /\ \A c \in Callers : taken[c] # s

====
